---- MODULE Spec2Model ----
(***************************************************************************)
(* couchbase-rest-sdk: the request layer (Base.send and its error          *)
(* normalisation) and the resource handles derived from one another        *)
(* (RestApi -> Cluster -> Node), modelled from app/base.js, app/api.js,    *)
(* app/cluster.js and app/node.js.                                         *)
(*                                                                         *)
(* JavaScript values are modelled as follows.                              *)
(*   - scalars held by a handle or passed in an options object (hosts,     *)
(*     ports, protocols, user names, passwords) are strings; Undef is the  *)
(*     value `undefined`, "" the empty string; both are falsy.             *)
(*   - a plain object is the sequence of its <<key, value>> entries in     *)
(*     insertion order, which is the order lodash and JSON.stringify       *)
(*     iterate in.                                                         *)
(*   - a value that can be a string, an object or absent (the body of an   *)
(*     upstream error) is tagged: <<"undef">>, <<"str", s>>,               *)
(*     <<"obj", entries>>.                                                 *)
(*   - a handle object is identified by its index in `handles`.            *)
(***************************************************************************)
EXTENDS Integers, Sequences, FiniteSets, TLC

VARIABLES
    handles,        \* the handle objects that exist, by identity
    clusters_map,   \* api.js: clusters_map, serialized options -> Cluster
    nodes_map,      \* cluster.js: nodes_map, serialized options -> Node
    call,           \* the operation invoked last and how it ended
    pending,        \* a request about to be sent and the response it will meet
    request,        \* the options of the request handed to rp last
    outcome,        \* how the promise of that request settled
    task,           \* the asynchronous operation invoked first, as far as it has got
    rival,          \* a second operation invoked on the handle, as far as it has got
    log             \* the requests the operations have handed to rp, in order

vars == <<handles, clusters_map, nodes_map, call, pending, request, outcome, task, rival, log>>

-----------------------------------------------------------------------------
(* Bounds of the model *)

MaxHandles == 2     \* handles derived from the root handle
MaxEntries == 2     \* entries of an upstream error mapping

-----------------------------------------------------------------------------
(* Scalars *)

Undef == "undefined"

Truthy(v) == v # Undef /\ v # ""

\* a || b
Or(a, b) == IF Truthy(a) THEN a ELSE b

\* a default parameter value: taken when the argument is undefined
Default(v, d) == IF v = Undef THEN d ELSE v

-----------------------------------------------------------------------------
(* Plain objects: sequences of <<key, value>> entries *)

Keys(o) == {o[i][1] : i \in DOMAIN o}

Has(o, k) == k \in Keys(o)

\* o[k], undefined when o has no such key
Get(o, k) ==
    IF Has(o, k) THEN o[CHOOSE i \in DOMAIN o : o[i][1] = k][2] ELSE Undef

\* o[k] = v: an existing key keeps its place, a new one is appended
Put(o, k, v) ==
    IF Has(o, k)
    THEN [i \in DOMAIN o |-> IF o[i][1] = k THEN <<k, v>> ELSE o[i]]
    ELSE Append(o, <<k, v>>)

\* lodash extend(a, b): the entries of b assigned to a, in b's order
RECURSIVE Extend(_, _)
Extend(a, b) ==
    IF b = <<>> THEN a
    ELSE Extend(Put(a, Head(b)[1], Head(b)[2]), Tail(b))

\* lodash pick(o, keys): the entries of o named in keys, in the order of keys
RECURSIVE Pick(_, _)
Pick(o, keys) ==
    IF keys = <<>> THEN <<>>
    ELSE (IF Has(o, Head(keys)) THEN <<<<Head(keys), Get(o, Head(keys))>>>> ELSE <<>>)
         \o Pick(o, Tail(keys))

\* JSON.stringify(o): the entries in order, those whose value is undefined left out
RECURSIVE Stringify(_)
Stringify(o) ==
    IF o = <<>> THEN <<>>
    ELSE (IF Head(o)[2] = Undef THEN <<>> ELSE <<Head(o)>>) \o Stringify(Tail(o))

-----------------------------------------------------------------------------
(* Tagged values *)

UndefV == <<"undef">>
Str(s) == <<"str", s>>
Obj(entries) == <<"obj", entries>>

IsObject(v) == v[1] = "obj"

TruthyV(v) ==
    CASE v[1] = "undef" -> FALSE
      [] v[1] = "str" -> v[2] # ""
      [] OTHER -> TRUE

\* further values an options object can hold: null, a boolean, a number, and
\* a string that is held as its pieces so that it can be split
Null == <<"null">>
Bool(b) == <<"bool", b>>
Num(n) == <<"num", n>>
Text(pieces) == <<"text", pieces>>
List(items) == <<"list", items>>

\* whether a value of any of the kinds above is truthy
Truthful(v) ==
    CASE v[1] = "undef" -> FALSE
      [] v[1] = "null" -> FALSE
      [] v[1] = "bool" -> v[2]
      [] v[1] = "num" -> v[2] # 0
      [] v[1] = "str" -> v[2] # ""
      [] v[1] = "text" -> v[2] # <<>>
      [] OTHER -> TRUE

\* o[k] of an object of tagged values
GetO(o, k) == IF Has(o, k) THEN Get(o, k) ELSE UndefV

\* lodash isEmpty: no entries, no characters, or not a collection at all
IsEmpty(v) ==
    CASE v[1] = "obj" -> v[2] = <<>>
      [] v[1] = "str" -> v[2] = ""
      [] OTHER -> TRUE

\* lodash get(v, key, dflt): dflt when the value found is undefined
GetV(v, key, dflt) ==
    IF IsObject(v) /\ Has(v[2], key) /\ Get(v[2], key) # UndefV
    THEN Get(v[2], key)
    ELSE dflt

\* the values of an object, in iteration order
Values(entries) == [i \in DOMAIN entries |-> entries[i][2]]

-----------------------------------------------------------------------------
(* Constructors *)

\* Base.constructor: the six fields, each defaulted when undefined
BaseConstructor(o) ==
    [cluster_host     |-> Default(Get(o, "cluster_host"), "localhost"),
     cluster_port     |-> Default(Get(o, "cluster_port"), "8091"),
     cluster_protocol |-> Default(Get(o, "cluster_protocol"), "http"),
     password         |-> Default(Get(o, "password"), "password"),
     pool             |-> Default(Get(o, "pool"), "default"),
     username         |-> Default(Get(o, "username"), "Administrator")]

\* the properties a handle of any class can carry; node_*, name and cluster
\* (0: no own property) are undefined on a handle that never had them assigned
Handle(kind, base, node_host, node_port, node_protocol) ==
    [kind             |-> kind,
     cluster_host     |-> base.cluster_host,
     cluster_port     |-> base.cluster_port,
     cluster_protocol |-> base.cluster_protocol,
     password         |-> base.password,
     pool             |-> base.pool,
     username         |-> base.username,
     node_host        |-> node_host,
     node_port        |-> node_port,
     node_protocol    |-> node_protocol,
     name             |-> Undef,
     cluster          |-> 0]

\* new RestApi(o): RestApi declares no constructor of its own
RestApiConstructor(o) == Handle("RestApi", BaseConstructor(o), Undef, Undef, Undef)

\* new Cluster(o)
ClusterConstructor(o) == Handle("Cluster", BaseConstructor(o), Undef, Undef, Undef)

\* new Node(o): node_host, node_port and node_protocol are taken out of the
\* options and defaulted, the rest goes to Base
NodeConstructor(o) ==
    Handle("Node", BaseConstructor(o),
           Default(Get(o, "node_host"), "localhost"),
           Default(Get(o, "node_port"), "8091"),
           Default(Get(o, "node_protocol"), "http"))

\* new Bucket(o): name is taken out of the options, the rest goes to Base
BucketConstructor(o) ==
    [Handle("Bucket", BaseConstructor(o), Undef, Undef, Undef)
        EXCEPT !.name = Get(o, "name")]

\* new ServerGroup(o): as a bucket
ServerGroupConstructor(o) ==
    [Handle("ServerGroup", BaseConstructor(o), Undef, Undef, Undef)
        EXCEPT !.name = Get(o, "name")]

-----------------------------------------------------------------------------
(* Base.send *)

\* a send that leaves the endpoint as it was given
KeepLeadingSlash(endpoint) == endpoint

\* endpoint.replace(/^\//, ''): an endpoint is the sequence of its pieces,
\* "/" and path segments; one leading "/" is dropped
StripLeadingSlash(endpoint) ==
    IF endpoint # <<>> /\ Head(endpoint) = "/" THEN Tail(endpoint) ELSE endpoint

\* a send that prefers the cluster-level host to the node-level one
ResolveHostClusterFirst(self, host) ==
    Default(host, Or(self.cluster_host, self.node_host))

\* the coordinates a request goes to: the argument, else the handle's
\* node-level value, else its cluster-level value, else the default
ResolveHost(self, host) == Default(host, Or(self.node_host, self.cluster_host))
ResolveProtocol(self, protocol) ==
    Default(protocol, Or(self.node_protocol, Or(self.cluster_protocol, "http")))
ResolvePort(self, port) ==
    Default(port, Or(self.node_port, Or(self.cluster_port, "8091")))

\* `${protocol}://${host}:${port}/${endpoint.replace(/^\//, '')}`
Uri(protocol, host, port, endpoint) ==
    <<protocol, "://", host, ":", port, "/">> \o StripLeadingSlash(endpoint)

\* a send that attaches credentials whenever there is a user name
AuthOnUsername(self) ==
    IF Truthy(self.username)
    THEN Obj(<< <<"user", self.username>>, <<"pass", self.password>>,
                <<"sendImmediately", "true">> >>)
    ELSE UndefV

\* options.auth, set when the handle has a user name and a password
Auth(self) ==
    IF Truthy(self.username) /\ Truthy(self.password)
    THEN Obj(<< <<"user", self.username>>, <<"pass", self.password>>,
                <<"sendImmediately", "true">> >>)
    ELSE UndefV

\* the options object handed to rp for the description d
SendOptions(self, d) ==
    [uri     |-> Uri(ResolveProtocol(self, d.protocol), ResolveHost(self, d.host),
                     ResolvePort(self, d.port), d.endpoint),
     method  |-> Default(d.method, "GET"),
     form    |-> d.form,
     body    |-> d.body,
     qs      |-> d.query,
     headers |-> d.headers,
     json    |-> TRUE,
     auth    |-> Auth(self)]

UnknownError == Str("Unknown Error")
NotFound == Str("Not Found")

\* a handler that never looks for the nested `errors` of the body
StructuredErrorsOfBody(err) ==
    IF IsObject(err.error)
    THEN LET list == Values(err.error[2])
         IN  IF err.statusCode # "404" /\ list = <<>>
             THEN <<"list", <<UnknownError>>>>
             ELSE <<"list", list>>
    ELSE err.error

\* the error list of an error that carries an `error` field
StructuredErrors(err) ==
    LET errors == GetV(err.error, "errors", Obj(<<>>))
        chosen == IF IsEmpty(errors) THEN err.error ELSE errors
    IN  IF IsObject(chosen)
        THEN LET list == Values(chosen[2])
             IN  IF err.statusCode # "404" /\ list = <<>>
                 THEN <<"list", <<UnknownError>>>>
                 ELSE <<"list", list>>
        ELSE chosen

\* the error list of an error that carries none: its message, or the error itself
MessageErrors(err) ==
    IF Truthy(err.message) THEN <<"list", <<Str(err.message)>>>> ELSE <<"raw", err>>

\* errors.length, 0 standing for a length that is 0 or undefined
Length(v) ==
    CASE v[1] = "list" -> Len(v[2])
      [] v[1] = "str" -> IF v[2] = "" THEN 0 ELSE 1
      [] OTHER -> 0

\* a handler without the final "Not Found" substitution
NormalizeWithoutNotFound(err) ==
    IF TruthyV(err.error) THEN StructuredErrors(err) ELSE MessageErrors(err)

\* the .catch handler of send: the value the promise is rejected with
Normalize(err) ==
    LET errors == IF TruthyV(err.error) THEN StructuredErrors(err)
                  ELSE MessageErrors(err)
    IN  IF Length(errors) = 0 /\ err.statusCode = "404"
        THEN <<"list", <<NotFound>>>>
        ELSE errors

\* how the promise returned by send settles on the response resp
Settle(resp) ==
    IF resp[1] = "ok" THEN <<"resolved", resp[2]>>
    ELSE <<"rejected", Normalize(resp[2])>>

-----------------------------------------------------------------------------
(* The convenience wrappers of Base *)

\* the argument object of a wrapper with nothing in it
NoArgs ==
    [form |-> UndefV, body |-> UndefV, query |-> UndefV,
     protocol |-> Undef, host |-> Undef, port |-> Undef]

FormHeaders == Obj(<< <<"Content-Type", "application/x-www-form-urlencoded">> >>)

\* Base.post(endpoint, { form, body, query, protocol, host, port }): the
\* description it hands to send
Post(endpoint, a) ==
    [method |-> "POST", endpoint |-> endpoint, form |-> a.form, body |-> a.body,
     query |-> a.query, headers |-> FormHeaders,
     protocol |-> a.protocol, host |-> a.host, port |-> a.port]

\* v, or d when v is undefined
DefaultV(v, d) == IF v = UndefV THEN d ELSE v

\* the options object of a wrapper with nothing in it
NoOptions ==
    [form |-> UndefV, body |-> UndefV, query |-> UndefV, data |-> UndefV,
     protocol |-> Undef, host |-> Undef, port |-> Undef]

\* Base.get(endpoint, { data = {}, protocol, host, port }): the parameters
\* are handed to send under the key `qs`, the rest of a description is undefined
BaseGet(endpoint, a) ==
    [method |-> "GET", endpoint |-> endpoint, form |-> UndefV, body |-> UndefV,
     query |-> UndefV, headers |-> UndefV, qs |-> DefaultV(a.data, Obj(<<>>)),
     protocol |-> a.protocol, host |-> a.host, port |-> a.port]

\* Base.delete(endpoint, { data = {}, query = {}, protocol, host, port })
BaseDelete(endpoint, a) ==
    [method |-> "DELETE", endpoint |-> endpoint, form |-> DefaultV(a.data, Obj(<<>>)),
     body |-> UndefV, query |-> DefaultV(a.query, Obj(<<>>)), headers |-> UndefV,
     protocol |-> a.protocol, host |-> a.host, port |-> a.port]

\* a put that attaches the form header as post does
BasePutWithHeaders(endpoint, a) ==
    [method |-> "PUT", endpoint |-> endpoint, form |-> a.data, body |-> a.body,
     query |-> a.query, headers |-> FormHeaders,
     protocol |-> a.protocol, host |-> a.host, port |-> a.port]

\* Base.put(endpoint, { data, body, query, protocol, host, port })
BasePut(endpoint, a) ==
    [method |-> "PUT", endpoint |-> endpoint, form |-> a.data, body |-> a.body,
     query |-> a.query, headers |-> UndefV,
     protocol |-> a.protocol, host |-> a.host, port |-> a.port]

-----------------------------------------------------------------------------
(* State *)

NoResponse == <<"none">>
NoRequest == <<"none">>
NoOutcome == <<"none">>

\* the record of an operation: who was called with what, the response its
\* request met, the handle it returned (0: none) and what it threw
Called(op, self, args, resp, ret, thrown) ==
    [op |-> op, self |-> self, args |-> args, resp |-> resp, ret |-> ret,
     thrown |-> thrown]

NoCall == Called("none", 0, <<>>, NoResponse, 0, "none")

\* no operation has been invoked
NoTask ==
    [op |-> "none", self |-> 0, args |-> <<>>, stage |-> 0, got |-> <<>>,
     result |-> NoOutcome, who |-> 0, since |-> NoOutcome]

Ids == DOMAIN handles

IdsOf(kind) == {h \in Ids : handles[h].kind = kind}

-----------------------------------------------------------------------------
(* Sending one request *)

\* self.send(d), the request meeting the response resp
Send(self, d, resp) ==
    /\ request' = SendOptions(handles[self], d)
    /\ outcome' = Settle(resp)
    /\ call' = Called("send", self, d, resp, 0, "none")
    /\ UNCHANGED <<handles, clusters_map, nodes_map, task, rival, log>>

\* the handles the pending script builds: one handle of the class it names,
\* or, for "Node.cluster", a node and the cluster that is assigned to it:
\* `n = new Node({node_host: 'h1'}); n.cluster = new Cluster(options)`
Constructed(script) ==
    CASE script.kind = "Node" -> <<NodeConstructor(script.options)>>
      [] script.kind = "Node.cluster" ->
            <<[NodeConstructor(<< <<"node_host", "h1">> >>) EXCEPT !.cluster = 2],
              ClusterConstructor(script.options)>>
      [] script.kind = "Bucket" -> <<BucketConstructor(script.options)>>
      [] script.kind = "ServerGroup" -> <<ServerGroupConstructor(script.options)>>
      [] script.kind = "RestApi" -> <<RestApiConstructor(script.options)>>
      [] OTHER -> <<ClusterConstructor(script.options)>>

\* new Cluster(options) or new Node(options), as the pending script asks
Construct ==
    /\ pending # <<>>
    /\ handles = <<>>
    /\ handles' = Constructed(pending[1])
    /\ call' = Called("new", 0, pending[1].options, NoResponse, 1, "none")
    /\ UNCHANGED <<clusters_map, nodes_map, pending, request, outcome, task, rival, log>>

\* the handle sends the pending request, which meets the pending response
SendPending ==
    /\ pending # <<>>
    /\ handles # <<>>
    /\ outcome = NoOutcome
    /\ Send(1, pending[1].d, pending[1].resp)
    /\ UNCHANGED pending

-----------------------------------------------------------------------------
(* Inputs *)

\* the objects that give each key of kv, a sequence of <<key, values>>, one
\* of its values or leave it out
RECURSIVE Choices(_)
Choices(kv) ==
    IF kv = <<>> THEN {<<>>}
    ELSE {h \o t : h \in {<<>>} \cup {<< <<Head(kv)[1], v>> >> : v \in Head(kv)[2]},
                   t \in Choices(Tail(kv))}

DistinctKeys(o) == \A i, j \in DOMAIN o : i # j => o[i][1] # o[j][1]

\* the objects of at most n entries taken from E
ObjectsOver(E, n) == {o \in UNION {[1..k -> E] : k \in 0..n} : DistinctKeys(o)}

\* upstream error bodies: absent, plain text, or a mapping of messages that
\* may hold a nested `errors` mapping
LeafEntries == {<<k, v>> : k \in {"ram", "name"}, v \in {Str("too small"), Str("taken")}}
LeafMaps == ObjectsOver(LeafEntries, MaxEntries)
ErrorMaps ==
    ObjectsOver(LeafEntries \cup {<<"errors", Obj(m)>> : m \in LeafMaps}, MaxEntries)
ErrorBodies == {UndefV, Str("Internal Server Error")} \cup {Obj(m) : m \in ErrorMaps}

\* what rp rejects with: a status code (none on a transport failure), the
\* body as `error`, a message
Errors ==
    [statusCode : {Undef, "400", "404"}, error : ErrorBodies,
     message : {Undef, "request failed"}]

Responses == {<<"ok", Obj(<<>>)>>} \cup {<<"fail", e>> : e \in Errors}

\* a GET of endpoint with the given overrides
Description(endpoint, protocol, host, port) ==
    [method |-> Undef, endpoint |-> endpoint, form |-> UndefV, body |-> UndefV,
     query |-> UndefV, headers |-> UndefV,
     protocol |-> protocol, host |-> host, port |-> port]

Endpoints ==
    {<<"pools">>, <<"/", "pools">>, <<"/", "pools", "/", "default">>,
     <<"/", "/", "pools">>}

Descriptions ==
    {Description(e, pr, h, po) :
        e \in Endpoints, pr \in {Undef, "https"}, h \in {Undef, "c"},
        po \in {Undef, "9002"}}

Credentials == << <<"username", {"", "u"}>>, <<"password", {"", "p"}>> >>

ClusterCoordinates ==
    << <<"cluster_host", {"a"}>>, <<"cluster_port", {"9000"}>>,
       <<"cluster_protocol", {"https"}>> >>

NodeCoordinates ==
    << <<"node_host", {"b"}>>, <<"node_port", {"9001"}>>,
       <<"node_protocol", {"https"}>> >>

\* the scripts `new kind(options).send(d)` meeting resp
Scripts(kinds, options, ds, resps) ==
    {<<[kind |-> k, options |-> o, d |-> d, resp |-> r]>> :
        k \in kinds, o \in options, d \in ds, r \in resps}

-----------------------------------------------------------------------------
(* The request layer alone: one handle, one request *)

Idle ==
    /\ handles = <<>>
    /\ clusters_map = <<>>
    /\ nodes_map = <<>>
    /\ call = NoCall
    /\ request = NoRequest
    /\ outcome = NoOutcome
    /\ task = NoTask
    /\ rival = NoTask
    /\ log = <<>>

\* a request of a default cluster handle that meets any response
InitNormalize ==
    /\ pending \in Scripts({"Cluster"}, {<<>>},
                           {Description(<<"/", "pools">>, Undef, Undef, Undef)},
                           Responses)
    /\ Idle

NextNormalize ==
    \/ Construct
    \/ SendPending

SpecNormalize == InitNormalize /\ [][NextNormalize]_vars

\* any request of any handle built with `new`
InitSend ==
    /\ pending \in
         Scripts({"Cluster"}, Choices(ClusterCoordinates \o Credentials),
                 Descriptions, {<<"ok", Obj(<<>>)>>})
         \cup Scripts({"Node"},
                      Choices(ClusterCoordinates \o NodeCoordinates \o Credentials),
                      Descriptions, {<<"ok", Obj(<<>>)>>})
    /\ Idle

NextSend ==
    \/ Construct
    \/ SendPending

SpecSend == InitSend /\ [][NextSend]_vars

-----------------------------------------------------------------------------
(* Deriving handles *)

\* pick(this, keys): the named properties of a handle, as an object
PickFields(self, keys) == [i \in 1..Len(keys) |-> <<keys[i], self[keys[i]]>>]

CoordinateKeys ==
    <<"cluster_host", "cluster_port", "cluster_protocol", "password", "username">>

\* RestApi.cluster: the options the cluster is looked up and built with.
\* cluster_host is a host name, undefined, or an options object
RestApiClusterOptions(self, cluster_host, options) ==
    IF IsObject(cluster_host)
    THEN Pick(Extend(<< <<"username", self.username>>, <<"password", self.password>> >>,
                     cluster_host[2]),
              <<"cluster_host", "cluster_port", "cluster_protocol", "username", "password">>)
    ELSE Extend(options,
                << <<"cluster_host", IF cluster_host = UndefV THEN Undef ELSE cluster_host[2]>> >>)

\* Cluster.node: the options the node is looked up and built with. node_host
\* is a host name, undefined, or an options object; options an object or undefined
ClusterNodeOptions(self, node_host, options) ==
    LET options0 == IF options = UndefV
                    THEN << <<"node_port", self.cluster_port>>,
                            <<"node_protocol", self.cluster_protocol>>,
                            <<"password", self.password>>,
                            <<"username", self.username>> >>
                    ELSE options[2]
        host0 == IF node_host = UndefV THEN Str(self.cluster_host) ELSE node_host
        options1 == IF IsObject(host0) THEN Extend(host0[2], options0) ELSE options0
        host1 == IF IsObject(host0) THEN self.cluster_host ELSE host0[2]
    IN  Extend(Extend(PickFields(self, CoordinateKeys), options1),
               << <<"node_host", host1>> >>)

\* map[key] = id
Store(map, key, id) == [k \in DOMAIN map \cup {key} |-> IF k = key THEN id ELSE map[k]]

\* whether one more handle may be derived from the root
Room == Len(handles) <= MaxHandles

\* self.cluster(cluster_host, options): the memoized cluster, else a new one
RestApiCluster(self, cluster_host, options) ==
    LET o == RestApiClusterOptions(handles[self], cluster_host, options)
        key == Stringify(o)
        args == [host |-> cluster_host, options |-> options]
    IN  IF key \in DOMAIN clusters_map
        THEN /\ call' = Called("cluster", self, args, NoResponse, clusters_map[key], "none")
             /\ UNCHANGED <<handles, clusters_map, nodes_map, pending, request, outcome, task, rival, log>>
        ELSE /\ Room
             /\ handles' = Append(handles, ClusterConstructor(o))
             /\ clusters_map' = Store(clusters_map, key, Len(handles) + 1)
             /\ call' = Called("cluster", self, args, NoResponse, Len(handles) + 1, "none")
             /\ UNCHANGED <<nodes_map, pending, request, outcome, task, rival, log>>

\* self.node(node_host, options): the memoized node, else a new one
ClusterNode(self, node_host, options) ==
    LET o == ClusterNodeOptions(handles[self], node_host, options)
        key == Stringify(o)
        args == [host |-> node_host, options |-> options]
    IN  IF key \in DOMAIN nodes_map
        THEN /\ call' = Called("node", self, args, NoResponse, nodes_map[key], "none")
             /\ UNCHANGED <<handles, clusters_map, nodes_map, pending, request, outcome, task, rival, log>>
        ELSE /\ Room
             /\ handles' = Append(handles, NodeConstructor(o))
             /\ nodes_map' = Store(nodes_map, key, Len(handles) + 1)
             /\ call' = Called("node", self, args, NoResponse, Len(handles) + 1, "none")
             /\ UNCHANGED <<clusters_map, pending, request, outcome, task, rival, log>>

\* self.bucket(name): always a new bucket
ClusterBucket(self, name) ==
    /\ Room
    /\ handles' = Append(handles,
            BucketConstructor(Extend(PickFields(handles[self], CoordinateKeys),
                                     << <<"name", Default(name, "")>> >>)))
    /\ call' = Called("bucket", self, name, NoResponse, Len(handles) + 1, "none")
    /\ UNCHANGED <<clusters_map, nodes_map, pending, request, outcome, task, rival, log>>

-----------------------------------------------------------------------------
(* Bucket.normalizeParams *)

\* the defaults of normalizeParams, in the order they are written
BucketDefaults(self) ==
    << <<"abort_outside_allowed_time", Bool(FALSE)>>,
       <<"allowed_time_period_start", Text(<<>>)>>,
       <<"allowed_time_period_stop", Text(<<>>)>>,
       <<"auth_type", Null>>,
       <<"auto_compaction_defined", Bool(FALSE)>>,
       <<"bucket_priority", Str("high")>>,
       <<"bucket_type", Str("membase")>>,
       <<"conflict_resolution_type", Str("seqno")>>,
       <<"database_fragmentation_percentage_threshold", Null>>,
       <<"database_fragmentation_size_threshold", Null>>,
       <<"document_replicas", Num(0)>>,
       <<"eviction_policy", Str("valueOnly")>>,
       <<"flush_enabled", Bool(FALSE)>>,
       <<"index_compaction_mode", Str("circular")>>,
       <<"index_replicas", Num(0)>>,
       <<"name", IF self.name = Undef THEN UndefV ELSE Str(self.name)>>,
       <<"parallel_compaction", Bool(FALSE)>>,
       <<"ram_size", Num(100)>>,
       <<"sasl_password", Null>>,
       <<"threads_number", Num(3)>>,
       <<"view_fragmentation_percentage_threshold", Null>>,
       <<"view_fragmentation_size_threshold", Null>> >>

\* key_map: the options that are renamed and nothing else
KeyMap ==
    << <<"abort_outside_allowed_time", "allowedTimePeriod[abortOutside]">>,
       <<"auth_type", "authType">>,
       <<"conflict_resolution_type", "conflictResolutionType">>,
       <<"database_fragmentation_percentage_threshold",
         "databaseFragmentationThreshold[percentage]">>,
       <<"document_replicas", "replicaNumber">>,
       <<"eviction_policy", "evictionPolicy">>,
       <<"flush_enabled", "flushEnabled">>,
       <<"index_compaction_mode", "indexCompactionMode">>,
       <<"index_replicas", "replicaIndex">>,
       <<"parallel_compaction", "parallelDBAndViewCompaction">>,
       <<"ram_size", "ramQuotaMB">>,
       <<"name", "name">>,
       <<"sasl_password", "saslPassword">>,
       <<"threads_number", "threadsNumber">>,
       <<"view_fragmentation_percentage_threshold",
         "viewFragmentationThreshold[percentage]">> >>

\* Object.keys(o)
ObjectKeys(o) == [i \in DOMAIN o |-> o[i][1]]

\* pieces.split(sep): the runs of pieces between the separators
RECURSIVE Split(_, _)
Split(pieces, sep) ==
    IF \A i \in DOMAIN pieces : pieces[i] # sep THEN <<pieces>>
    ELSE LET i == CHOOSE k \in DOMAIN pieces :
                    pieces[k] = sep /\ \A j \in 1..(k - 1) : pieces[j] # sep
         IN  <<SubSeq(pieces, 1, i - 1)>> \o Split(SubSeq(pieces, i + 1, Len(pieces)), sep)

\* value.split(':')[k - 1]
SplitAt(value, k) ==
    LET parts == Split(value[2], ":")
    IN  IF k <= Len(parts) THEN Text(parts[k]) ELSE UndefV

\* value * 1024 * 1024
Bytes(value) == Num(value[2] * 1024 * 1024)

\* one round of the reduce: what the option key with the merged value adds
\* to the form fields collected so far
MapParam(result, key, value) ==
    IF value = Null THEN result
    ELSE CASE key = "allowed_time_period_start" ->
                Put(Put(result, "allowedTimePeriod[fromHour]", SplitAt(value, 1)),
                    "allowedTimePeriod[fromMinute]", SplitAt(value, 2))
           [] key = "allowed_time_period_stop" ->
                Put(Put(result, "allowedTimePeriod[toHour]", SplitAt(value, 1)),
                    "allowedTimePeriod[toMinute]", SplitAt(value, 2))
           [] key = "bucket_type" ->
                Put(result, "bucketType",
                    IF value = Str("couchbase") THEN Str("membase") ELSE value)
           [] key = "database_fragmentation_size_threshold" ->
                Put(result, "databaseFragmentationThreshold[size]", Bytes(value))
           [] key = "view_fragmentation_size_threshold" ->
                Put(result, "viewFragmentationThreshold[size]", Bytes(value))
           [] key = "bucket_priority" ->
                Put(result, "threadsNumber", IF value = Str("high") THEN Num(8) ELSE Num(3))
           [] key = "flush_enabled" ->
                Put(result, "flushEnabled", IF Truthful(value) THEN Num(1) ELSE Num(0))
           [] OTHER ->
                IF Has(KeyMap, key) THEN Put(result, Get(KeyMap, key), value) ELSE result

\* reduce(merged, ..., result)
RECURSIVE MapParams(_, _)
MapParams(merged, result) ==
    IF merged = <<>> THEN result
    ELSE MapParams(Tail(merged), MapParam(result, Head(merged)[1], Head(merged)[2]))

\* whether the caller gave a truthy compaction threshold
AutoCompactionDefined(options) ==
    \/ Truthful(GetO(options, "database_fragmentation_percentage_threshold"))
    \/ Truthful(GetO(options, "database_fragmentation_size_threshold"))
    \/ Truthful(GetO(options, "view_fragmentation_percentage_threshold"))
    \/ Truthful(GetO(options, "view_fragmentation_size_threshold"))

\* the entries of o whose key is not in keys
Without(o, keys) == SelectSeq(o, LAMBDA e : e[1] \notin keys)

\* a normalizeParams that filters nothing out
KeepAll(params, options) == params

\* the keys ephemeral buckets do not support are filtered out
FilterEphemeral(params, options) ==
    IF GetO(options, "bucket_type") = Str("ephemeral")
    THEN Without(params, {"autoCompactionDefined", "replicaIndex"})
    ELSE params

\* self.normalizeParams(options)
NormalizeParams(self, options) ==
    LET defaults == BucketDefaults(self)
        merged == Extend(defaults, Pick(options, ObjectKeys(defaults)))
        params == Put(MapParams(merged, <<>>), "autoCompactionDefined",
                      Bool(AutoCompactionDefined(options)))
    IN  FilterEphemeral(params, options)

-----------------------------------------------------------------------------
(* Operations that write to a handle *)

\* a credentials that stores the two values the wrong way round
StoredCrossed(self, username, password) ==
    [self EXCEPT !.username = password, !.password = username]

\* this.username = username; this.password = password
Stored(self, username, password) ==
    [self EXCEPT !.username = username, !.password = password]

\* self.credentials(o): the credentials are saved on the handle, then posted
ClusterCredentials(self, o, resp) ==
    LET password == Default(Get(o, "password"), handles[self].password)
        username == Default(Get(o, "username"), handles[self].username)
        saved == Stored(handles[self], username, password)
        form == Obj(<< <<"username", username>>, <<"password", password>>,
                       <<"port", "SAME">> >>)
    IN  /\ handles' = [handles EXCEPT ![self] = saved]
        /\ request' = SendOptions(saved,
                Post(<<"/", "settings", "/", "web">>, [NoArgs EXCEPT !.form = form]))
        /\ outcome' = Settle(resp)
        /\ call' = Called("credentials", self, o, resp, 0, "none")
        /\ UNCHANGED <<clusters_map, nodes_map, pending, task, rival, log>>

\* a setter that is a plain assignment
AssignCluster(self, value, strict) ==
    [node |-> [self EXCEPT !.cluster = value], thrown |-> "none"]

\* set cluster(value): Object.defineProperty(this, 'cluster', {value,
\* writable: false}). The first assignment makes `cluster` an own property
\* that is neither writable nor configurable and that shadows the setter; a
\* later assignment leaves it as it is, and throws a TypeError when the
\* assigning code is strict (as all code of the library's modules is)
DefineCluster(self, value, strict) ==
    IF self.cluster = 0
    THEN [node |-> [self EXCEPT !.cluster = value], thrown |-> "none"]
    ELSE [node |-> self, thrown |-> IF strict THEN "TypeError" ELSE "none"]

\* self.cluster = value, in strict or in sloppy code
NodeSetCluster(self, value, strict) ==
    LET done == DefineCluster(handles[self], value, strict)
    IN  /\ handles' = [handles EXCEPT ![self] = done.node]
        /\ call' = Called("set cluster", self, [value |-> value, strict |-> strict],
                          NoResponse, 0, done.thrown)
        /\ UNCHANGED <<clusters_map, nodes_map, pending, request, outcome, task, rival, log>>

-----------------------------------------------------------------------------
(* The handles *)

RootOptions == {<< <<"username", "u">>, <<"password", "p">> >>}

\* arguments of RestApi.cluster: a host with or without options, or an
\* options object
ClusterArguments ==
    {<<Str("a"), <<>>>>,
     <<Str("a"), << <<"password", "p">>, <<"username", "u">> >> >>,
     <<Obj(<< <<"cluster_host", "a">> >>), <<>>>>,
     <<Obj(<< <<"cluster_host", "a">>, <<"cluster_port", "8091">> >>), <<>>>>}

\* arguments of Cluster.node: nothing, a host with or without options, or an
\* options object
NodeArguments ==
    {<<UndefV, UndefV>>,
     <<Str("b"), UndefV>>,
     <<Str("b"), Obj(<< <<"node_port", "8091">> >>)>>,
     <<Obj(<< <<"node_port", "9001">> >>), UndefV>>}

BucketNames == {"bucket1"}

CredentialsOptions == {<< <<"password", "q">> >>}

CredentialsResponses ==
    {<<"ok", Obj(<<>>)>>,
     <<"fail", [statusCode |-> "400", error |-> Obj(<< <<"password", Str("too short")>> >>),
                message |-> "request failed"]>>}

\* a root handle has been built with `new RestApi(o)`
Init ==
    /\ handles \in {<<RestApiConstructor(o)>> : o \in RootOptions}
    /\ clusters_map = <<>>
    /\ nodes_map = <<>>
    /\ call = NoCall
    /\ pending = <<>>
    /\ request = NoRequest
    /\ outcome = NoOutcome
    /\ task = NoTask
    /\ rival = NoTask
    /\ log = <<>>

Next ==
    \/ \E self \in IdsOf("RestApi"), a \in ClusterArguments :
            RestApiCluster(self, a[1], a[2])
    \/ \E self \in IdsOf("Cluster"), a \in NodeArguments : ClusterNode(self, a[1], a[2])
    \/ \E self \in IdsOf("Cluster"), name \in BucketNames : ClusterBucket(self, name)
    \/ \E self \in IdsOf("Cluster"), o \in CredentialsOptions,
          resp \in CredentialsResponses :
            ClusterCredentials(self, o, resp)
    \/ \E self \in IdsOf("Node"), strict \in BOOLEAN :
            \E value \in Ids \ {self} : NodeSetCluster(self, value, strict)

Spec == Init /\ [][Next]_vars

-----------------------------------------------------------------------------
(* Endpoints and payloads of the operations *)

\* `/pools/${this.pool}`
PoolPath(self) == <<"/", "pools", "/", self.pool>>

\* `/pools/${this.pool}/serverGroups`
ServerGroupsPath(self) == PoolPath(self) \o <<"/", "serverGroups">>

\* the options a wrapper destructures from the object o it is given
Options(o) ==
    [form |-> GetO(o, "form"), body |-> GetO(o, "body"), query |-> GetO(o, "query"),
     data |-> GetO(o, "data"),
     protocol |-> IF Has(o, "protocol") THEN Get(o, "protocol")[2] ELSE Undef,
     host |-> IF Has(o, "host") THEN Get(o, "host")[2] ELSE Undef,
     port |-> IF Has(o, "port") THEN Get(o, "port")[2] ELSE Undef]

Form(entries) == [NoOptions EXCEPT !.form = Obj(entries)]

\* uri.replace(prefix, ''): the prefix dropped where the uri starts with it
\* (the uris met here hold the prefix at their start or not at all)
StripPrefix(uri, prefix) ==
    IF Len(uri) >= Len(prefix) /\ SubSeq(uri, 1, Len(prefix)) = prefix
    THEN SubSeq(uri, Len(prefix) + 1, Len(uri))
    ELSE uri

\* a revision that is the uri as it came
WholeUri(self, uri) == uri

\* uri.replace(`/pools/${this.pool}/serverGroups?rev=`, '')
Rev(self, uri) == StripPrefix(uri, ServerGroupsPath(self) \o <<"?rev=">>)

\* the path segments that consist of letters only
Alphabetic == {"pools", "default", "serverGroups", "other"}

\* what /^\/([A-Za-z]+\/)+/ matches at the start of uri: the number of pieces
RECURSIVE Segments(_, _)
Segments(uri, from) ==
    IF from + 1 <= Len(uri) /\ uri[from] \in Alphabetic /\ uri[from + 1] = "/"
    THEN Segments(uri, from + 2)
    ELSE from - 1

\* uri.replace(/^\/([A-Za-z]+\/)+/, '')
Uuid(uri) ==
    IF uri # <<>> /\ uri[1] = "/" /\ Segments(uri, 2) > 1
    THEN SubSeq(uri, Segments(uri, 2) + 1, Len(uri))
    ELSE uri

\* ServerGroup.details: the reduce over the groups of the reply, which keeps
\* the last group called name and adds its uuid and the revision, {} if none
Detail(self, data, name) ==
    LET found == {i \in DOMAIN data.groups : data.groups[i].name = name}
    IN  IF found = {} THEN Obj(<<>>)
        ELSE LET g == data.groups[CHOOSE i \in found : \A j \in found : j <= i]
             IN  <<"detail", [name |-> g.name, uri |-> g.uri, nodes |-> g.nodes,
                              uuid |-> Uuid(g.uri), rev |-> Rev(self, data.uri)]>>

Digits == {"8091", "9000"}

\* hostname.replace(/:[0-9]+$/, '')
StripPort(hostname) ==
    IF Len(hostname) >= 2 /\ hostname[Len(hostname) - 1] = ":"
       /\ hostname[Len(hostname)] \in Digits
    THEN SubSeq(hostname, 1, Len(hostname) - 2)
    ELSE hostname

\* the first truthy of the hostname, node_host, ip and ip_address of item, else ''
RECURSIVE FirstTruthy(_, _)
FirstTruthy(entries, previous) ==
    IF entries = <<>> THEN previous
    ELSE FirstTruthy(Tail(entries),
                     IF previous = <<>> /\ Truthful(Head(entries)[2])
                     THEN Head(entries)[2][2] ELSE previous)

\* addMembers: the hosts asked for. nodes is a comma-separated string or a
\* list of strings and objects; a host is the sequence of its pieces
Hosts(nodes) ==
    LET items == IF nodes[1] = "text"
                 THEN [i \in DOMAIN Split(nodes[2], ",") |-> Text(Split(nodes[2], ",")[i])]
                 ELSE nodes[2]
    IN  [i \in DOMAIN items |->
            IF items[i][1] = "text" THEN items[i][2]
            ELSE FirstTruthy(Pick(items[i][2], <<"hostname", "node_host", "ip", "ip_address">>),
                             <<>>)]

InSeq(x, seq) == \E i \in DOMAIN seq : seq[i] = x

\* a group of the reply without the nodes asked for, each node kept as its otpNode
Filtered(group, hosts) ==
    LET kept == SelectSeq(group.nodes, LAMBDA n : ~InSeq(StripPort(n.hostname), hosts))
    IN  [group EXCEPT !.nodes = [i \in DOMAIN kept |-> [otpNode |-> kept[i].otpNode]]]

\* findIndex(groups, { name }), 0 for -1
FindIndex(groups, name) ==
    IF \E i \in DOMAIN groups : groups[i].name = name
    THEN CHOOSE i \in DOMAIN groups :
            groups[i].name = name /\ \A j \in 1..(i - 1) : groups[j].name # name
    ELSE 0

\* addMembers: the groups put back, the nodes asked for taken out of every
\* group and appended to the group called name (which exists)
Members(data, hosts, name) ==
    LET groups == [i \in DOMAIN data.groups |-> Filtered(data.groups[i], hosts)]
        index == FindIndex(groups, name)
    IN  [groups EXCEPT ![index].nodes =
            @ \o [k \in DOMAIN hosts |-> [otpNode |-> <<"ns_1@">> \o hosts[k]]]]

\* parts.join(sep)
RECURSIVE Join(_, _)
Join(parts, sep) ==
    IF parts = <<>> THEN <<>>
    ELSE IF Len(parts) = 1 THEN parts[1]
    ELSE parts[1] \o <<sep>> \o Join(Tail(parts), sep)

\* services.replace('data', 'kv'), a list of services being one token
UseServices(services) == IF services = "data" THEN "kv" ELSE services

-----------------------------------------------------------------------------
(* Asynchronous operations: what each one does between two awaits *)

\* the requests an operation awaits one after the other, by name; a stage
\* may hold several requests that are sent together and awaited together
Stages(op) ==
    CASE op \in {"Base.get", "Base.post", "Base.put", "Base.delete"} -> <<"send">>
      [] op = "Bucket.normalizeParams" -> <<>>
      [] op \in {"Bucket.create", "Bucket.validate"} -> <<"post">>
      [] op = "ServerGroup.create" -> <<"post", "details">>
      [] op = "ServerGroup.groups" -> <<"get">>
      [] op = "ServerGroup.addMembers" -> <<"groups", "put">>
      [] op = "ServerGroup.rename" -> <<"details", "put">>
      [] op = "ServerGroup.remove" -> <<"details", "delete">>
      [] op = "ServerGroup.addNode" -> <<"details", "post">>
      [] op \in {"Cluster.ejectNode", "Cluster.credentials"} -> <<"post">>
      [] op = "Cluster.details" -> <<"get">>
      [] op = "Cluster.addBuckets" -> <<"addBuckets">>
      [] op = "Cluster.addNodes" -> <<"addNodes", "details", "rebalance">>
      [] op = "Cluster.rebalance" -> <<"details", "rebalance">>
      [] op = "RestApi.node" -> <<"derive", "useServices", "hostname", "paths">>
      [] op \in {"Node.paths", "Node.hostname", "Node.useServices", "Node.eject",
                 "Node.failover"} -> <<"post">>
      [] op \in {"Node.recover", "Node.join"} -> <<"post", "details", "rebalance">>
      [] op = "Cluster.initialize" ->
            <<"memory", "useServices", "hostname", "paths", "credentials",
              "clusterName", "addBuckets", "addNodes", "details", "rebalance">>

\* the operations of a server group that look its uuid up unless it is given
Lookups == {"ServerGroup.rename", "ServerGroup.remove", "ServerGroup.addNode"}

\* Cluster.rebalance: the argument, which is { knownNodes: [], ejectedNodes: [] }
\* when the call gives none, and the call of every other operation gives none
RebalanceArguments(op, args) ==
    IF op = "Cluster.rebalance" /\ args.given
    THEN [knownNodes |-> args.knownNodes, ejectedNodes |-> args.ejectedNodes]
    ELSE [knownNodes |-> List(<<>>), ejectedNodes |-> List(<<>>)]

\* !knownNodes.length, which is evaluated (and throws) for no knownNodes
Unknown(known) == known = UndefV \/ known[2] = <<>>

\* RestApi.node: the options, which are node_host when that is an object
DerivedOptions(a) ==
    IF IsObject(a.node_host) THEN a.node_host[2]
    ELSE IF a.options = UndefV THEN <<>> ELSE a.options[2]

\* RestApi.node: the node that is built, whose cluster-level coordinates are
\* the host given and the node_port and node_protocol of the options
DerivedNode(self, a) ==
    NodeConstructor(
        << <<"cluster_host", IF IsObject(a.node_host) \/ a.node_host = UndefV
                             THEN self.cluster_host ELSE a.node_host[2]>>,
           <<"cluster_port", Default(Get(DerivedOptions(a), "node_port"), "8091")>>,
           <<"cluster_protocol", Default(Get(DerivedOptions(a), "node_protocol"), "http")>>,
           <<"password", self.password>>,
           <<"username", self.username>> >>)

\* RestApi.node: the rest of the options, as Node.configure destructures it
Configuration(a) ==
    [data_path  |-> Get(DerivedOptions(a), "data_path"),
     hostname   |-> Get(DerivedOptions(a), "hostname"),
     index_path |-> Get(DerivedOptions(a), "index_path"),
     services   |-> Get(DerivedOptions(a), "services")]

\* Node.configure: the conditions under which a step of it is taken
Configured(stage, config) ==
    CASE stage = "useServices" -> Truthy(config.services)
      [] stage = "hostname" -> Truthy(config.hostname)
      [] stage = "paths" -> Truthy(config.data_path) \/ Truthy(config.index_path)

\* the conditions of Cluster.initialize, of Node.configure, of
\* Cluster.addNodes and of Cluster.rebalance under which a stage is entered;
\* every other stage always is
Wanted(op, stage, args, self) ==
    IF op \in Lookups
    THEN stage = "details" => ~Truthy(Default(args.uuid, ""))
    ELSE IF op = "RestApi.node"
    THEN stage = "derive" \/ Configured(stage, Configuration(args))
    ELSE IF op \in {"Node.recover", "Node.join"}
    THEN stage = "post" \/ Default(args.rebalance, "false") = "true"
    ELSE IF op = "Cluster.addNodes"
    THEN stage = "addNodes" \/ Default(args.rebalance, "true") = "true"
    ELSE IF op = "Cluster.rebalance"
    THEN stage = "rebalance" \/ Unknown(RebalanceArguments(op, args).knownNodes)
    ELSE IF op # "Cluster.initialize" THEN TRUE
    ELSE CASE stage = "memory" ->
                Truthy(args.fts_memory) \/ Truthy(args.index_memory) \/ Truthy(args.kv_memory)
           [] stage = "useServices" -> Truthy(args.services)
           [] stage = "hostname" -> Truthy(args.hostname)
           [] stage = "paths" -> Truthy(args.data_path) \/ Truthy(args.index_path)
           [] stage = "credentials" ->
                /\ Truthy(Default(args.username, self.username))
                /\ Truthy(Default(args.password, self.password))
           [] stage = "clusterName" -> Truthy(args.cluster_name)
           [] stage = "addBuckets" -> args.buckets # <<>>
           [] stage = "addNodes" -> args.nodes # <<>>
           [] stage \in {"details", "rebalance"} ->
                args.nodes # <<>> /\ Default(args.rebalance, "true") = "true"

NodeStages == {"useServices", "hostname", "paths"}

\* whether the stage is the first of Node.configure that initialize enters,
\* which is where it runs `node = this.node(); node.cluster = this`
EntersNode(t, stage, self) ==
    /\ t.op = "Cluster.initialize"
    /\ stage \in NodeStages
    /\ \A i \in DOMAIN Stages(t.op) :
            Stages(t.op)[i] \in NodeStages /\ Wanted(t.op, Stages(t.op)[i], t.args, self)
                => i >= CHOOSE k \in DOMAIN Stages(t.op) : Stages(t.op)[k] = stage

\* data decoded from a response that is more than a flat object
Json(value) == <<"json", value>>

\* the decoded reply of the stage called name that the task has got
Got(t, name) ==
    t.got[CHOOSE i \in DOMAIN t.got : t.got[i].stage = name].data[2]

\* this.node() of initialize: the key of the node and the node
OwnNodeKey(self) == Stringify(ClusterNodeOptions(self, UndefV, UndefV))
OwnNode(self) == NodeConstructor(ClusterNodeOptions(self, UndefV, UndefV))

\* whether an operation of a node evaluates `this.cluster` when it enters
\* the stage: eject for the coordinates it passes on, join for the default of
\* every parameter the call leaves undefined, and recover and join for the
\* rebalance. On a node that has no own property `cluster` the getter,
\* `return this.cluster`, calls itself until the stack is exhausted
ReadsCluster(op, stage, a) ==
    CASE op = "Node.eject" -> TRUE
      [] op = "Node.join" /\ stage = "post" ->
            Undef \in {a.cluster_host, a.cluster_protocol, a.cluster_port,
                       a.password, a.username}
      [] OTHER -> stage = "details"

\* what entering the stage writes and whether it throws before any request
\* of the stage is sent
Effects(t, stage, hs, nm) ==
    LET self == hs[t.self]
        same == [handles |-> hs, nodes_map |-> nm, thrown |-> "none"]
    IN  CASE t.op = "Cluster.credentials" ->
                [same EXCEPT !.handles = [hs EXCEPT ![t.self] =
                    Stored(self, Default(Get(t.args, "username"), self.username),
                                 Default(Get(t.args, "password"), self.password))]]
          [] t.op = "Cluster.initialize" /\ stage = "credentials" ->
                [same EXCEPT !.handles = [hs EXCEPT ![t.self] =
                    Stored(self, Default(t.args.username, self.username),
                                 Default(t.args.password, self.password))]]
          [] t.op = "Cluster.initialize" /\ stage = "clusterName" ->
                [same EXCEPT !.thrown = "ReferenceError"]
          [] EntersNode(t, stage, self) ->
                LET key == OwnNodeKey(self)
                    known == key \in DOMAIN nm
                    id == IF known THEN nm[key] ELSE Len(hs) + 1
                    hs1 == IF known THEN hs ELSE Append(hs, OwnNode(self))
                    done == DefineCluster(hs1[id], t.self, TRUE)
                IN  [handles |-> [hs1 EXCEPT ![id] = done.node],
                     nodes_map |-> IF known THEN nm ELSE Store(nm, key, id),
                     thrown |-> done.thrown]
          [] t.op = "RestApi.node" /\ stage = "derive" ->
                [same EXCEPT !.handles = Append(hs, DerivedNode(self, t.args))]
          [] t.op \in {"Node.eject", "Node.join", "Node.recover"} ->
                IF ReadsCluster(t.op, stage, t.args) /\ self.cluster = 0
                THEN [same EXCEPT !.thrown = "RangeError"]
                ELSE same
          [] t.op = "Cluster.rebalance" /\ stage = "details" ->
                IF RebalanceArguments(t.op, t.args).knownNodes = UndefV
                THEN [same EXCEPT !.thrown = "TypeError"]
                ELSE same
          [] t.op = "Cluster.rebalance" /\ stage = "rebalance" ->
                IF RebalanceArguments(t.op, t.args).ejectedNodes = UndefV
                THEN [same EXCEPT !.thrown = "TypeError"]
                ELSE same
          [] t.op = "ServerGroup.addMembers" /\ stage = "put" ->
                IF FindIndex(Got(t, "groups").groups,
                             Default(t.args.name, self.name)) = 0
                THEN [same EXCEPT !.thrown = "TypeError"]
                ELSE same
          [] OTHER -> same

\* one request: the handle that sends it and its description
By(self, d) == [by |-> self, d |-> d]

\* the bucket Cluster.addBucket builds for a name
AddedBucket(self, name) ==
    BucketConstructor(Extend(PickFields(self, CoordinateKeys), << <<"name", name>> >>))

\* Bucket.create: the request
BucketCreate(self, options) ==
    Post(PoolPath(self) \o <<"/", "buckets">>, Form(NormalizeParams(self, options)))

\* Bucket.validate: the request
BucketValidate(self, options) ==
    Post(<<"/", "pools", "/", "default", "/", "buckets">>,
         [Form(NormalizeParams(self, options)) EXCEPT
            !.query = Obj(<< <<"ignore_warnings", "0">>, <<"just_validate", "1">> >>)])

\* Cluster.addNode: the request
AddNode(self, node) ==
    Post(<<"/", "controller", "/", "addNode">>,
         Form(<< <<"hostname", Or(node.node_host, Or(node.hostname, node.cluster_host))>>,
                 <<"services", node.services>>,
                 <<"user", self.username>>,
                 <<"password", self.password>> >>))

\* Cluster.addNodes: the nodes that are not the cluster's own
Foreign(self, nodes) ==
    SelectSeq(nodes, LAMBDA n : ~(/\ n.cluster_protocol = self.cluster_protocol
                                  /\ n.cluster_host = self.cluster_host
                                  /\ n.cluster_port = self.cluster_port))

\* buckets created one after the other: the first one only is sent at first
AddFirstBucket(self, buckets) ==
    [i \in DOMAIN buckets \cap {1} |->
        By(AddedBucket(self, buckets[i]), BucketCreate(AddedBucket(self, buckets[i]), <<>>))]

\* Cluster.addBuckets: a bucket is built and created for every name
AddBuckets(self, buckets) ==
    [i \in DOMAIN buckets |->
        By(AddedBucket(self, buckets[i]), BucketCreate(AddedBucket(self, buckets[i]), <<>>))]

\* Cluster.addNodes: every node that is not the cluster's own is added
AddNodes(self, nodes) ==
    [i \in DOMAIN Foreign(self, nodes) |-> By(self, AddNode(self, Foreign(self, nodes)[i]))]

\* Cluster.rebalance: the known nodes, which are those given, or, when the
\* details were fetched, the otpNode of every node that is not ejected
KnownNodes(t) ==
    IF \E i \in DOMAIN t.got : t.got[i].stage = "details"
    THEN LET nodes == SelectSeq(Got(t, "details").nodes,
                        LAMBDA n : ~InSeq(n.otpNode, RebalanceArguments(t.op, t.args).ejectedNodes[2]))
         IN  [i \in DOMAIN nodes |-> nodes[i].otpNode]
    ELSE RebalanceArguments(t.op, t.args).knownNodes[2]

\* Cluster.rebalance: the request
Rebalance(self, knownNodes) ==
    Post(<<"/", "controller", "/", "rebalance">>,
         Form(<< <<"knownNodes", Join(knownNodes, ",")>> >>))

\* the name of the group an operation of a server group is about
GroupName(t, self) ==
    Default(IF t.op = "ServerGroup.rename" THEN t.args.old_name ELSE t.args.name, self.name)

\* the uuid of the group: the one given or, when it was looked up, the one of
\* the details, which is undefined when the details hold no such group
GroupUuid(t, self) ==
    IF \E i \in DOMAIN t.got : t.got[i].stage = "details"
    THEN IF Detail(self, Got(t, "details"), GroupName(t, self))[1] = "detail"
         THEN Detail(self, Got(t, "details"), GroupName(t, self))[2].uuid
         ELSE <<Undef>>
    ELSE <<t.args.uuid>>

\* `/pools/${this.pool}/serverGroups/${uuid}`
GroupPath(t, self) == ServerGroupsPath(self) \o <<"/">> \o GroupUuid(t, self)

\* Node.useServices(services = 'kv'): the request, whose second argument,
\* the options of post, is the object { services }
NodeUseServices(services) ==
    Post(<<"/", "node", "/", "controller", "/", "setupServices">>,
         Options(<< <<"services", Str(UseServices(Default(services, "kv")))>> >>))

\* Node.hostname(hostname = this.cluster_host): the request
NodeHostname(self, hostname) ==
    Post(<<"/", "node", "/", "controller", "/", "rename">>,
         Options(<< <<"hostname", Str(Default(hostname, self.cluster_host))>> >>))

\* Node.paths({ data_path, index_path }): the request
NodePaths(data_path, index_path) ==
    Post(<<"/", "nodes", "/", "self", "/", "controller", "/", "settings">>,
         Options(<< <<"path", Str(Default(data_path,
                                "/opt/couchbase/var/lib/couchbase/data"))>>,
                    <<"index_path", Str(Default(index_path,
                                "/opt/couchbase/var/lib/couchbase/data"))>> >>))

\* `${node}@${hostname}` of eject, failover and recover
OtpNode(self, a) ==
    Text(<<Default(a.node, "ns_1"), "@", Default(a.hostname, self.node_host)>>)

\* Node.eject: the request. post is called with four arguments and has two
\* parameters: the coordinates of the cluster, the fourth, are not looked at
NodeEject(self, a) ==
    Post(<<"/", "controller", "/", "ejectNode">>,
         Options(<< <<"otpNode", OtpNode(self, a)>> >>))

\* Node.failover: the request
NodeFailover(self, a) ==
    Post(IF Default(a.graceful, "true") = "true"
         THEN <<"/", "controller", "/", "startGracefulFailover">>
         ELSE <<"/", "controller", "/", "failOver">>,
         Options(<< <<"otpNode", OtpNode(self, a)>> >>))

\* Node.recover: the request that sets the recovery type
NodeRecover(self, a) ==
    Post(<<"/", "controller", "/", "setRecoveryType">>,
         Options(<< <<"otpNode", OtpNode(self, a)>>,
                    <<"recoveryType", Str(Default(a.recover_type, "full"))>> >>))

\* get(this.cluster, key, dflt) for a parameter of join the call leaves
\* undefined: the cluster that was assigned has every such property
OfCluster(hs, self, given, key) ==
    IF given # Undef \/ self.cluster = 0 THEN given ELSE hs[self.cluster][key]

\* Node.join: the request that joins the cluster
NodeJoin(hs, self, a) ==
    Post(<<"/", "node", "/", "controller", "/", "doJoinCluster">>,
         Options(<< <<"clusterMemberHostIp",
                        Str(OfCluster(hs, self, a.cluster_host, "cluster_host"))>>,
                    <<"clusterMemberPort",
                        Str(OfCluster(hs, self, a.cluster_port, "cluster_port"))>>,
                    <<"user", Str(OfCluster(hs, self, a.username, "username"))>>,
                    <<"password", Str(OfCluster(hs, self, a.password, "password"))>> >>))

\* a step of Node.configure taken by the node: the request
Configure(node, stage, config) ==
    CASE stage = "useServices" -> NodeUseServices(config.services)
      [] stage = "hostname" -> NodeHostname(node, config.hostname)
      [] stage = "paths" -> NodePaths(config.data_path, config.index_path)

\* the requests of a stage, sent by the handles as the stage's writes left them
Requests(t, stage, hs, nm) ==
    LET self == hs[t.self]
        a == t.args
    IN  CASE t.op = "Base.get" -> <<By(self, BaseGet(a.endpoint, a.options))>>
          [] t.op = "Base.post" -> <<By(self, Post(a.endpoint, a.options))>>
          [] t.op = "Base.put" -> <<By(self, BasePut(a.endpoint, a.options))>>
          [] t.op = "Base.delete" -> <<By(self, BaseDelete(a.endpoint, a.options))>>
          [] t.op = "Bucket.create" -> <<By(self, BucketCreate(self, a))>>
          [] t.op = "Bucket.validate" -> <<By(self, BucketValidate(self, a))>>
          [] t.op = "ServerGroup.create" /\ stage = "post" ->
                <<By(self, Post(ServerGroupsPath(self),
                                Form(<< <<"name", Default(a, self.name)>> >>)))>>
          [] t.op = "ServerGroup.create" /\ stage = "details" ->
                <<By(self, BaseGet(ServerGroupsPath(self), NoOptions))>>
          [] t.op = "ServerGroup.groups" ->
                <<By(self, BaseGet(ServerGroupsPath(self), NoOptions))>>
          [] t.op = "ServerGroup.addMembers" /\ stage = "groups" ->
                <<By(self, BaseGet(ServerGroupsPath(self), NoOptions))>>
          [] t.op = "ServerGroup.addMembers" /\ stage = "put" ->
                LET data == Got(t, "groups")
                IN  <<By(self, BasePut(ServerGroupsPath(self),
                        [NoOptions EXCEPT
                            !.body = Json([groups |-> Members(data, Hosts(a.nodes),
                                                    Default(a.name, self.name))]),
                            !.query = Json([rev |-> Rev(self, data.uri)])]))>>
          [] t.op \in Lookups /\ stage = "details" ->
                <<By(self, BaseGet(ServerGroupsPath(self), NoOptions))>>
          [] t.op = "ServerGroup.rename" ->
                <<By(self, BasePut(GroupPath(t, self),
                        Form(<< <<"name", Default(a.new_name, "")>> >>)))>>
          [] t.op = "ServerGroup.remove" -> <<By(self, BaseDelete(GroupPath(t, self), NoOptions))>>
          [] t.op = "ServerGroup.addNode" ->
                <<By(self, Post(GroupPath(t, self) \o <<"/", "addNode">>,
                        Form(<< <<"hostname", Or(a.node_host, Or(a.hostname, a.cluster_host))>>,
                                <<"services", a.services>>,
                                <<"user", self.username>>,
                                <<"password", self.password>> >>)))>>
          [] t.op = "Cluster.ejectNode" ->
                <<By(self, Post(<<"/", "controller", "/", "ejectNode">>,
                        Form(<< <<"otpNode", <<Default(a.node, "ns_1"), "@", a.hostname>> >> >>)))>>
          [] t.op = "Cluster.credentials" ->
                <<By(self, Post(<<"/", "settings", "/", "web">>,
                        Form(<< <<"username", self.username>>,
                                <<"password", self.password>>,
                                <<"port", "SAME">> >>)))>>
          [] t.op = "Cluster.details" -> <<By(self, BaseGet(PoolPath(self), NoOptions))>>
          [] t.op = "Cluster.addBuckets" -> AddBuckets(self, a)
          [] t.op = "Cluster.addNodes" /\ stage = "addNodes" -> AddNodes(self, a.nodes)
          [] t.op \in {"Cluster.addNodes", "Cluster.rebalance"} /\ stage = "details" ->
                <<By(self, BaseGet(PoolPath(self), NoOptions))>>
          [] t.op \in {"Cluster.addNodes", "Cluster.rebalance"} /\ stage = "rebalance" ->
                <<By(self, Rebalance(self, KnownNodes(t)))>>
          [] t.op = "RestApi.node" /\ stage = "derive" -> <<>>
          [] t.op = "RestApi.node" /\ stage # "derive" ->
                <<By(hs[Len(hs)], Configure(hs[Len(hs)], stage, Configuration(a)))>>
          [] t.op = "Node.useServices" -> <<By(self, NodeUseServices(a.services))>>
          [] t.op = "Node.hostname" -> <<By(self, NodeHostname(self, a.hostname))>>
          [] t.op = "Node.paths" -> <<By(self, NodePaths(a.data_path, a.index_path))>>
          [] t.op = "Node.eject" -> <<By(self, NodeEject(self, a))>>
          [] t.op = "Node.failover" -> <<By(self, NodeFailover(self, a))>>
          [] t.op = "Node.recover" /\ stage = "post" -> <<By(self, NodeRecover(self, a))>>
          [] t.op = "Node.join" /\ stage = "post" -> <<By(self, NodeJoin(hs, self, a))>>
          [] t.op \in {"Node.recover", "Node.join"} /\ stage = "details" ->
                <<By(hs[self.cluster], BaseGet(PoolPath(hs[self.cluster]), NoOptions))>>
          [] t.op \in {"Node.recover", "Node.join"} /\ stage = "rebalance" ->
                <<By(hs[self.cluster], Rebalance(hs[self.cluster], KnownNodes(t)))>>
          [] t.op = "Cluster.initialize" ->
                CASE stage = "memory" ->
                        <<By(self, Post(PoolPath(self),
                            Form(<< <<"memoryQuota", Default(a.kv_memory, "100")>>,
                                    <<"indexMemoryQuota", Default(a.index_memory, "256")>>,
                                    <<"ftsMemoryQuota", Default(a.fts_memory, "256")>> >>)))>>
                  [] stage = "useServices" ->
                        <<By(hs[nm[OwnNodeKey(self)]],
                             Post(<<"/", "node", "/", "controller", "/", "setupServices">>,
                                  Options(<< <<"services", Str(UseServices(a.services))>> >>)))>>
                  [] stage = "hostname" ->
                        <<By(hs[nm[OwnNodeKey(self)]],
                             Post(<<"/", "node", "/", "controller", "/", "rename">>,
                                  Options(<< <<"hostname", Str(a.hostname)>> >>)))>>
                  [] stage = "paths" ->
                        <<By(hs[nm[OwnNodeKey(self)]],
                             Post(<<"/", "nodes", "/", "self", "/", "controller", "/", "settings">>,
                                  Options(<< <<"path", Str(Default(a.data_path,
                                                "/opt/couchbase/var/lib/couchbase/data"))>>,
                                             <<"index_path", Str(Default(a.index_path,
                                                "/opt/couchbase/var/lib/couchbase/data"))>> >>)))>>
                  [] stage = "credentials" ->
                        <<By(self, Post(<<"/", "settings", "/", "web">>,
                            Form(<< <<"username", self.username>>,
                                    <<"password", self.password>>,
                                    <<"port", "SAME">> >>)))>>
                  [] stage = "clusterName" ->
                        <<By(self, Post(PoolPath(self),
                                        Form(<< <<"clusterName", a.cluster_name>> >>)))>>
                  [] stage = "addBuckets" -> AddBuckets(self, a.buckets)
                  [] stage = "addNodes" -> AddNodes(self, a.nodes)
                  [] stage = "details" -> <<By(self, BaseGet(PoolPath(self), NoOptions))>>
                  [] stage = "rebalance" -> <<By(self, Rebalance(self, KnownNodes(t)))>>

\* the value of the last reply the task has got
LastData(t) == t.got[Len(t.got)].data

\* operations that resolve as if every write returned its handle and
\* every create a fetched record
ResultByKind(t, hs) ==
    CASE t.op = "Bucket.normalizeParams" ->
            <<"returned", Obj(NormalizeParams(hs[t.self], t.args))>>
      [] t.op \in {"Cluster.details", "ServerGroup.groups", "Base.get"} ->
            <<"resolved", LastData(t)>>
      [] t.op \in {"Bucket.create", "ServerGroup.create"} ->
            <<"resolved", <<"detail", LastData(t)>>>>
      [] OTHER -> <<"resolved", <<"handle", t.self>>>>

\* what the operation resolves with once its last stage is done
Result(t, hs) ==
    CASE t.op = "Bucket.normalizeParams" ->
            <<"returned", Obj(NormalizeParams(hs[t.self], t.args))>>
      [] t.op \in {"Bucket.create", "ServerGroup.addMembers", "Cluster.initialize",
                   "ServerGroup.rename", "ServerGroup.remove",
                   "Node.recover", "Node.join"} ->
            <<"resolved", <<"handle", t.self>>>>
      [] t.op = "RestApi.node" -> <<"resolved", <<"handle", Len(hs)>>>>
      [] t.op = "Bucket.validate" -> <<"resolved", Bool(TRUE)>>
      [] t.op = "Cluster.addBuckets" -> <<"resolved", <<"promises", t.args>>>>
      [] t.op = "Cluster.addNodes" -> <<"resolved", List(t.args.nodes)>>
      [] t.op = "ServerGroup.create" ->
            <<"resolved", Detail(hs[t.self], LastData(t)[2], Default(t.args, hs[t.self].name))>>
      [] OTHER -> <<"resolved", LastData(t)>>

\* an operation that wraps every rejection as ejectNode does
RejectionAsError(op, stage, errors) == <<"Error", "">>

\* the requests whose rejection the operation catches to throw
\* new Error(err.message) instead
Catches(op, stage) ==
    \/ op \in {"Cluster.ejectNode", "Node.eject", "Node.failover"}
    \/ op \in {"Node.recover", "Node.join"} /\ stage = "post"

\* what the operation rejects with when a request of the stage was rejected
\* with errors: the message of the Error that replaces them is '' as a list
\* of errors and a string have no `message`
Rejection(op, stage, errors) ==
    IF Catches(op, stage)
    THEN <<"Error", IF errors[1] = "raw" THEN Default(errors[2].message, "") ELSE "">>
    ELSE errors

-----------------------------------------------------------------------------
(* Asynchronous operations: running one *)

\* the operation as invoked: no stage entered, nothing got, not settled. It
\* is the first (who = 1) or the second (who = 2) invoked on the handle, and
\* `since` holds how the first had settled when the second was invoked
Invoked(op, self, args) ==
    [op |-> op, self |-> self, args |-> args, stage |-> 0, got |-> <<>>,
     result |-> NoOutcome, who |-> 1, since |-> NoOutcome]

\* a log that does not tell the calls of a handle apart
EntryOfFirst(of, stage, r) ==
    [of |-> 1, stage |-> stage, by |-> r.by, d |-> r.d,
     request |-> SendOptions(r.by, r.d), reply |-> NoResponse]

\* the entry of the log for a request that operation `of` handed to rp
Entry(of, stage, r) ==
    [of |-> of, stage |-> stage, by |-> r.by, d |-> r.d,
     request |-> SendOptions(r.by, r.d), reply |-> NoResponse]

\* the stages after the one the operation is at whose step is wanted
Later(t, hs) ==
    {i \in (t.stage + 1)..Len(Stages(t.op)) :
        Wanted(t.op, Stages(t.op)[i], t.args, hs[t.self])}

Least(S) == CHOOSE k \in S : \A j \in S : k <= j

\* no step is left: the operation returns
Returned(t, hs, nm, lg) ==
    [task |-> [t EXCEPT !.stage = Len(Stages(t.op)) + 1, !.result = Result(t, hs)],
     handles |-> hs, nodes_map |-> nm, log |-> lg]

RECURSIVE Advance(_, _, _, _)

\* stage i is entered with the effects e and the requests rs: a throw rejects
\* the operation, a stage without requests is passed through, and requests
\* are sent and awaited
Entered(t, i, e, rs, lg) ==
    IF e.thrown # "none"
    THEN [task |-> [t EXCEPT !.stage = i, !.result = <<"rejected", <<"thrown", e.thrown>>>>],
          handles |-> e.handles, nodes_map |-> e.nodes_map, log |-> lg]
    ELSE IF rs = <<>>
    THEN Advance([t EXCEPT !.stage = i], e.handles, e.nodes_map, lg)
    ELSE [task |-> [t EXCEPT !.stage = i],
          handles |-> e.handles, nodes_map |-> e.nodes_map,
          log |-> lg \o [k \in DOMAIN rs |-> Entry(t.who, Stages(t.op)[i], rs[k])]]

\* the requests of stage i are those of the handles as its effects e left them
Enter(t, i, e, lg) ==
    Entered(t, i, e, Requests(t, Stages(t.op)[i], e.handles, e.nodes_map), lg)

\* the operation runs on from where it is until it awaits requests or
\* settles: it enters the next stage that is wanted, which may write, throw,
\* or send requests
Advance(t, hs, nm, lg) ==
    IF Later(t, hs) = {}
    THEN Returned(t, hs, nm, lg)
    ELSE Enter(t, Least(Later(t, hs)),
               Effects(t, Stages(t.op)[Least(Later(t, hs))], hs, nm), lg)

\* the operation who is left as value, the other one as it is
Keep(who, value) ==
    IF who = 1 THEN task' = value /\ UNCHANGED rival
    ELSE rival' = value /\ UNCHANGED task

\* the state an operation leaves when it has run on
Ran(run) ==
    /\ Keep(run.task.who, run.task)
    /\ handles' = run.handles
    /\ nodes_map' = run.nodes_map
    /\ log' = run.log
    /\ request' = IF run.log = <<>> THEN request ELSE run.log[Len(run.log)].request

\* the handle invokes the pending operation, which runs until its first await
Invoke ==
    /\ pending # <<>>
    /\ handles # <<>>
    /\ task.op = "none"
    /\ Ran(Advance(Invoked(pending[1].op, 1, pending[1].args), handles, nodes_map, log))
    /\ call' = Called(pending[1].op, 1, pending[1].args, NoResponse, 0, "none")
    /\ UNCHANGED <<clusters_map, pending, outcome>>

\* the operation as invoked a second time on the handle, when the first has
\* settled as `since` (or not yet): the calls share the handle and nothing else
Again(op, args, since) ==
    [Invoked(op, 1, args) EXCEPT !.who = 2, !.since = since]

\* the handle invokes the operation the script names second, at any time
\* after the first was invoked: nothing makes a call wait for another one
Second ==
    /\ Len(pending) >= 2
    /\ task.op # "none"
    /\ rival.op = "none"
    /\ Ran(Advance(Again(pending[2].op, pending[2].args, task.result),
                   handles, nodes_map, log))
    /\ call' = Called(pending[2].op, 1, pending[2].args, NoResponse, 0, "none")
    /\ UNCHANGED <<clusters_map, pending, outcome>>

\* an operation that runs on at the first reply of a stage
NeverAwaited(t, lg, i) == FALSE

\* whether a request of the stage of t other than i is still awaited in lg
Awaited(t, lg, i) ==
    \E j \in DOMAIN lg :
        /\ j # i
        /\ lg[j].of = t.who
        /\ lg[j].stage = Stages(t.op)[t.stage]
        /\ lg[j].reply = NoResponse

\* the operation t, with the reply in the log lg and in the task got: if it
\* has not settled yet, it rejects on a rejection, waits on while requests of
\* the stage are out, and otherwise runs on
Resume(t, i, resp, lg, got) ==
    IF t.result # NoOutcome
    THEN /\ log' = lg
         /\ UNCHANGED <<task, rival, handles, nodes_map, request>>
    ELSE IF resp[1] = "fail"
    THEN /\ log' = lg
         /\ Keep(t.who, [t EXCEPT
                            !.result = <<"rejected", Rejection(t.op, lg[i].stage,
                                                               Normalize(resp[2]))>>])
         /\ UNCHANGED <<handles, nodes_map, request>>
    ELSE IF Awaited(t, lg, i)
    THEN /\ log' = lg
         /\ Keep(t.who, got)
         /\ UNCHANGED <<handles, nodes_map, request>>
    ELSE Ran(Advance(got, handles, nodes_map, lg))

\* the operation that handed request i of the log to rp
Owner(i) == IF log[i].of = 1 THEN task ELSE rival

\* request i of the log meets the response resp: the promise of send settles
\* and the operation that awaits it resumes
Reply(i, resp) ==
    /\ task.op # "none"
    /\ i \in DOMAIN log
    /\ log[i].reply = NoResponse
    /\ outcome' = Settle(resp)
    /\ Resume(Owner(i), i, resp, [log EXCEPT ![i].reply = resp],
              [Owner(i) EXCEPT !.got = Append(@, [stage |-> log[i].stage, data |-> resp[2]])])
    /\ UNCHANGED <<clusters_map, pending, call>>

-----------------------------------------------------------------------------
(* Inputs of the operations *)

\* what the server may answer with an error
Failures ==
    {[statusCode |-> "400",
      error |-> Obj(<< <<"errors", Obj(<< <<"ram", Str("too small")>> >>)>> >>),
      message |-> "request failed"],
     [statusCode |-> "404", error |-> UndefV, message |-> Undef]}

\* a node of a server group as the server lists it
Member(host) ==
    [hostname |-> <<host, ":", "8091">>, otpNode |-> <<"ns_1@", host>>]

\* a server group as the server lists it
Group(self, name, uuid, hosts) ==
    [name |-> name, uri |-> ServerGroupsPath(self) \o <<"/", uuid>>,
     nodes |-> [i \in DOMAIN hosts |-> Member(hosts[i])]]

\* the server groups of the pool of self, with their revision
Topologies(self) ==
    {[groups |-> <<Group(self, "group-a", "0", a), Group(self, "group-b", "a1b2", b)>>,
      uri |-> ServerGroupsPath(self) \o <<"?rev=", rev>>] :
        a \in {<<"h1", "h2">>, <<>>}, b \in {<<"h3">>}, rev \in {"7", "8"}}

\* the details of a cluster of two nodes
ClusterDetails ==
    [nodes |-> <<[otpNode |-> <<"ns_1@", "h1">>], [otpNode |-> <<"ns_1@", "h2">>]>>]

\* the responses the request of a log entry can meet
RepliesTo(e) ==
    {<<"fail", f>> : f \in Failures} \cup
    (IF e.d.method = "GET" /\ e.d.endpoint = ServerGroupsPath(e.by)
     THEN {<<"ok", Json(topology)>> : topology \in Topologies(e.by)}
     ELSE IF e.d.method = "GET" /\ e.d.endpoint = PoolPath(e.by)
     THEN {<<"ok", Json(ClusterDetails)>>}
     ELSE {<<"ok", Obj(<<>>)>>})

\* the scripts `new kind(options).op(args)`
Operations(kinds, options, ops, args) ==
    {<<[kind |-> k, options |-> o, op |-> op, args |-> a]>> :
        k \in kinds, o \in options, op \in ops, a \in args}

\* options objects of the wrappers of Base
WrapperOptions ==
    {[NoOptions EXCEPT !.data = data, !.query = query, !.form = form] :
        data \in {UndefV, Obj(<< <<"filter", "x">> >>)},
        query \in {UndefV, Obj(<< <<"rev", "7">> >>)},
        form \in {UndefV, Obj(<< <<"name", "n">> >>)}}

WrapperArguments ==
    {[endpoint |-> <<"/", "pools">>, options |-> o] : o \in WrapperOptions}

\* options objects of a bucket
BucketOptions ==
    Choices(<< <<"bucket_type", {Str("ephemeral"), Str("couchbase")}>>,
               <<"index_replicas", {Num(1)}>>,
               <<"database_fragmentation_size_threshold", {Num(2)}>>,
               <<"view_fragmentation_percentage_threshold", {Num(0)}>>,
               <<"allowed_time_period_start", {Text(<<"02", ":", "30">>)}>>,
               <<"flush_enabled", {Bool(TRUE)}>>,
               <<"bucket_priority", {Str("low")}>>,
               <<"colour", {Str("red")}>> >>)

\* handles built directly, in the default pool or in another
Named(name) ==
    {<< <<"name", name>> >>, << <<"name", name>>, <<"pool", "other">> >>}

\* the nodes argument of addMembers
MemberLists ==
    {<<"list", <<>>>>,
     <<"list", <<Text(<<"h1">>)>>>>,
     <<"list", <<Text(<<"h3">>)>>>>,
     <<"list", <<Text(<<"h1">>), Text(<<"h3">>)>>>>,
     <<"list", <<Text(<<"h1">>), Text(<<"h1">>)>>>>,
     <<"list", <<Text(<<"h1", ":", "8091">>)>>>>,
     <<"list", <<Obj(<< <<"hostname", Text(<<>>)>>, <<"node_host", Text(<<"h4">>)>> >>)>>>>,
     Text(<<"h1", ",", "h4">>)}

AddMembersArguments ==
    {[nodes |-> nodes, name |-> name] :
        nodes \in MemberLists, name \in {Undef, "group-b", "group-c"}}

\* a node given to addNodes
OtherNode ==
    [cluster_protocol |-> "http", cluster_host |-> "h2", cluster_port |-> "8091",
     node_host |-> "h2", hostname |-> Undef, services |-> "kv"]

InitializeArguments ==
    [buckets : {<<>>, <<"bucket1">>, <<"bucket1", "bucket2">>},
     cluster_name : {Undef, "c"},
     data_path : {Undef},
     fts_memory : {Undef},
     hostname : {Undef, "h1.local"},
     index_path : {Undef, "/indexes"},
     index_memory : {Undef},
     kv_memory : {Undef, "300"},
     nodes : {<<>>, <<OtherNode>>},
     password : {Undef, "p2"},
     rebalance : {Undef, "false"},
     services : {Undef, "data"},
     username : {Undef}]

\* the node of the cluster itself and another node, given to addNodes
SameNode == [OtherNode EXCEPT !.cluster_host = "localhost", !.node_host = "localhost"]
ThirdNode == [OtherNode EXCEPT !.cluster_host = "h3", !.node_host = "h3"]

AddNodesArguments ==
    [nodes : {<<>>, <<OtherNode>>, <<OtherNode, ThirdNode>>, <<SameNode, OtherNode>>},
     rebalance : {Undef, "false"}]

\* Cluster.rebalance(): no argument; Cluster.rebalance({...}): lists or nothing
RebalanceCalls ==
    {[given |-> FALSE, knownNodes |-> UndefV, ejectedNodes |-> UndefV]} \cup
    [given : {TRUE},
     knownNodes : {UndefV, List(<<>>), List(<< <<"ns_1@", "h1">> >>)},
     ejectedNodes : {UndefV, List(<<>>), List(<< <<"ns_1@", "h2">> >>)}]

RenameArguments ==
    [new_name : {"group-z"}, old_name : {Undef, "group-b", "group-c"}, uuid : {Undef, "a1b2"}]

RemoveArguments == [name : {Undef, "group-c"}, uuid : {Undef, "", "0"}]

GroupAddNodeArguments ==
    [name : {Undef}, uuid : {Undef, "0"}, cluster_host : {Undef}, node_host : {Undef, "h4"},
     hostname : {"h5"}, services : {"kv"}]

\* RestApi.node(node_host, options): a host, nothing or an options object,
\* and options or nothing
DeriveArguments ==
    [node_host : {UndefV, Str("h3"), Obj(<< <<"services", "data">> >>)},
     options : {UndefV, Obj(<<>>), Obj(<< <<"services", "data">> >>),
                Obj(<< <<"node_port", "9000">>, <<"node_protocol", "https">>,
                       <<"hostname", "h3.local">> >>),
                Obj(<< <<"data_path", "/data">> >>)}]

\* the arguments of the operations of a node
PathsArguments == [data_path : {Undef, "/data"}, index_path : {Undef, "/indexes"}]
HostnameArguments == [hostname : {Undef, "h1.local"}]
UseServicesArguments == [services : {Undef, "data", "index"}]
EjectArguments == [node : {Undef, "ns_2"}, hostname : {Undef, "h2"}]
FailoverArguments == [graceful : {Undef, "false"}, node : {Undef}, hostname : {Undef, "h2"}]
RecoverArguments ==
    [recover_type : {Undef, "delta"}, node : {Undef}, hostname : {Undef},
     rebalance : {Undef, "true"}]
JoinArguments ==
    [cluster_host : {Undef, "h8"}, cluster_protocol : {Undef, "https"},
     cluster_port : {Undef, "9000"}, password : {Undef, "p2"},
     rebalance : {Undef, "true"}, username : {Undef, "u2"}]

\* `new Node(options).op(args)`, and the same on a node that has been
\* assigned a cluster
NodeOperations(ops, args) ==
    Operations({"Node"}, {<<>>, << <<"node_host", "h1">> >>}, ops, args) \cup
    Operations({"Node.cluster"}, {<< <<"cluster_host", "h9">> >>}, ops, args)

\* two calls of addMembers: one moves h1 to group-b, the other one h3 to
\* the group of the handle, or h1 to group-b as well
FirstMembers == {[nodes |-> <<"list", <<Text(<<"h1">>)>>>>, name |-> "group-b"]}
SecondMembers ==
    {[nodes |-> <<"list", <<Text(<<h>>)>>>>, name |-> name] :
        h \in {"h1", "h3"}, name \in {Undef, "group-b"}}

\* initialize with the settings given and nothing else
Settings(services, hostname, password) ==
    [buckets |-> <<>>, cluster_name |-> Undef, data_path |-> Undef, fts_memory |-> Undef,
     hostname |-> hostname, index_path |-> Undef, index_memory |-> Undef,
     kv_memory |-> Undef, nodes |-> <<>>, password |-> password, rebalance |-> Undef,
     services |-> services, username |-> Undef]

\* two calls of initialize: with or without settings of the node, the first
\* one with or without a new password
FirstSettings ==
    {Settings(services, Undef, password) :
        services \in {Undef, "data"}, password \in {Undef, "p2"}}
SecondSettings ==
    {Settings(services, hostname, Undef) :
        services \in {Undef, "data"}, hostname \in {Undef, "h1.local"}}

\* the scripts `h = new kind(options); h.op(first); h.op(second)`
Twice(kind, options, op, first, second) ==
    {<<[kind |-> kind, options |-> options, op |-> op, args |-> a],
       [kind |-> kind, options |-> options, op |-> op, args |-> b]>> :
        a \in first, b \in second}

\* clusters built directly: the default one, one without a password, one of
\* another pool
Clusters == {<<>>, << <<"password", "">> >>, << <<"pool", "other">> >>}

-----------------------------------------------------------------------------
(* The operations: one handle, one operation *)

InitOps ==
    /\ \/ pending \in Operations({"Cluster"}, {<<>>},
                               {"Base.get", "Base.post", "Base.put", "Base.delete"},
                               WrapperArguments)
       \/ pending \in Operations({"Bucket"}, Named("bucket1"),
                               {"Bucket.normalizeParams", "Bucket.create", "Bucket.validate"},
                               BucketOptions)
       \/ pending \in Operations({"ServerGroup"}, Named("group-a"),
                               {"ServerGroup.create"}, {Undef, "group-b"})
       \/ pending \in Operations({"ServerGroup"}, Named("group-a"),
                               {"ServerGroup.groups"}, {<<>>})
       \/ pending \in Operations({"ServerGroup"}, Named("group-a"),
                               {"ServerGroup.addMembers"}, AddMembersArguments)
       \/ pending \in Operations({"Cluster"}, Clusters, {"Cluster.ejectNode"},
                               {[hostname |-> "h2", node |-> Undef]})
       \/ pending \in Operations({"Cluster"}, Clusters, {"Cluster.credentials"},
                               CredentialsOptions)
       \/ pending \in Operations({"Cluster"}, Clusters, {"Cluster.details"}, {<<>>})
       \/ pending \in Operations({"Cluster"}, Clusters, {"Cluster.initialize"},
                               InitializeArguments)
    /\ Idle

\* further operations: those of a cluster on its nodes and buckets
InitCalls ==
    /\ \/ pending \in Operations({"Cluster"}, {<<>>}, {"Cluster.addBuckets"},
                               {<<>>, <<"bucket1">>, <<"bucket1", "bucket2">>})
       \/ pending \in Operations({"Cluster"}, {<<>>}, {"Cluster.addNodes"},
                               AddNodesArguments)
       \/ pending \in Operations({"Cluster"}, {<<>>}, {"Cluster.rebalance"},
                               RebalanceCalls)
       \/ pending \in Operations({"ServerGroup"}, Named("group-a"),
                               {"ServerGroup.addMembers"}, AddMembersArguments)
       \/ pending \in Operations({"ServerGroup"}, Named("group-a"),
                               {"ServerGroup.rename"}, RenameArguments)
       \/ pending \in Operations({"ServerGroup"}, Named("group-a"),
                               {"ServerGroup.remove"}, RemoveArguments)
       \/ pending \in Operations({"ServerGroup"}, Named("group-a"),
                               {"ServerGroup.addNode"}, GroupAddNodeArguments)
    /\ Idle

\* the operations of a node, and the node RestApi derives and configures
InitNodes ==
    /\ \/ pending \in Operations({"RestApi"}, {<<>>, << <<"cluster_host", "h0">> >>},
                               {"RestApi.node"}, DeriveArguments)
       \/ pending \in NodeOperations({"Node.paths"}, PathsArguments)
       \/ pending \in NodeOperations({"Node.hostname"}, HostnameArguments)
       \/ pending \in NodeOperations({"Node.useServices"}, UseServicesArguments)
       \/ pending \in NodeOperations({"Node.eject"}, EjectArguments)
       \/ pending \in NodeOperations({"Node.failover"}, FailoverArguments)
       \/ pending \in NodeOperations({"Node.recover"}, RecoverArguments)
       \/ pending \in NodeOperations({"Node.join"}, JoinArguments)
    /\ Idle

NextOps ==
    \/ Construct
    \/ Invoke
    \/ \E i \in DOMAIN log : \E resp \in RepliesTo(log[i]) : Reply(i, resp)

SpecOps == InitOps /\ [][NextOps]_vars

SpecCalls == InitCalls /\ [][NextOps]_vars

SpecNodes == InitNodes /\ [][NextOps]_vars

-----------------------------------------------------------------------------
(* The operations: one handle, two calls of one operation *)

InitTwice ==
    /\ \/ pending \in Twice("ServerGroup", << <<"name", "group-a">> >>,
                          "ServerGroup.addMembers", FirstMembers, SecondMembers)
       \/ pending \in Twice("Cluster", <<>>, "Cluster.initialize",
                          FirstSettings, SecondSettings)
    /\ Idle

NextTwice ==
    \/ Construct
    \/ Invoke
    \/ Second
    \/ \E i \in DOMAIN log : \E resp \in RepliesTo(log[i]) : Reply(i, resp)

SpecTwice == InitTwice /\ [][NextTwice]_vars

-----------------------------------------------------------------------------
(* Properties of the request layer *)

Sent == call.op = "send"
Failed == Sent /\ call.resp[1] = "fail"
Err == call.resp[2]
Rejected(value) == outcome = <<"rejected", value>>

\* C1: every failed request whose status is not 404 is rejected with a
\* non-empty list.
C1_NonEmptyList ==
    Failed /\ Err.statusCode # "404" =>
        /\ outcome[1] = "rejected"
        /\ outcome[2][1] = "list"
        /\ outcome[2][2] # <<>>

ScenarioD == Obj(<< <<"errors", Obj(<< <<"ram", Str("too small")>> >>)>> >>)

\* C3: a failed request whose `error` is a mapping with entries is rejected
\* with the values, in iteration order, of error.errors if that has entries
\* and of error itself otherwise; {statusCode: 400, error: {errors: {ram:
\* "too small"}}} is rejected with ["too small"].
C3_StructuredErrors ==
    /\ Failed /\ IsObject(Err.error) /\ Err.error[2] # <<>> =>
            LET body == Err.error[2]
                nested == IF Has(body, "errors") THEN Get(body, "errors")[2] ELSE <<>>
                source == IF nested # <<>> THEN nested ELSE body
            IN  /\ outcome[1] = "rejected"
                /\ outcome[2][1] = "list"
                /\ Len(outcome[2][2]) = Len(source)
                /\ \A i \in DOMAIN source : outcome[2][2][i] = source[i][2]
    /\ Failed /\ Err.statusCode = "400" /\ Err.error = ScenarioD =>
            Rejected(List(<<Str("too small")>>))

C3_Witness ==
    /\ Failed
    /\ Err.statusCode = "400"
    /\ Err.error = ScenarioD
    /\ Rejected(List(<<Str("too small")>>))

\* C4: for an endpoint with or without a leading slash, the URL is
\* {protocol}://{host}:{port}, one slash, and the path without that slash.
C4_OneSlash ==
    Sent /\ ~(Len(call.args.endpoint) >= 2 /\ SubSeq(call.args.endpoint, 1, 2) = <<"/", "/">>) =>
        LET e == call.args.endpoint
            path == IF e # <<>> /\ e[1] = "/" THEN SubSeq(e, 2, Len(e)) ELSE e
            uri == request.uri
        IN  /\ Len(uri) = 6 + Len(path)
            /\ uri[2] = "://" /\ uri[4] = ":" /\ uri[6] = "/"
            /\ SubSeq(uri, 7, Len(uri)) = path
            /\ path # <<>> => path[1] # "/"

C4_Witness ==
    /\ Sent
    /\ call.args.endpoint = <<"/", "pools">>
    /\ SubSeq(request.uri, 4, 7) = <<":", "8091", "/", "pools">>

BasicAuth(user, pass) ==
    Obj(<< <<"user", user>>, <<"pass", pass>>, <<"sendImmediately", "true">> >>)

\* C5: a request of a handle whose user name and password are both
\* non-empty carries Basic Auth with them, sent immediately; a request of a
\* handle whose password is empty carries no auth.
C5_BasicAuth ==
    Sent =>
        LET self == handles[call.self]
        IN  /\ self.username # "" /\ self.password # "" =>
                    request.auth = BasicAuth(self.username, self.password)
            /\ self.password = "" => request.auth = UndefV

C5_Witness ==
    /\ Sent
    /\ handles[call.self].username = "u"
    /\ handles[call.self].password = "p"
    /\ request.auth = BasicAuth("u", "p")

\* the first of the values that is defined
FirstOf(values) ==
    values[CHOOSE i \in DOMAIN values :
                /\ values[i] # Undef
                /\ \A j \in 1..(i - 1) : values[j] = Undef]

\* C6: host, port and protocol of a request are the per-call override, else
\* the handle's node-level value, else its cluster-level value, else
\* localhost / 8091 / http.
C6_Resolution ==
    Sent =>
        LET self == handles[call.self]
            d == call.args
            o == pending[1].options
        IN  /\ request.uri[1] =
                    FirstOf(<<d.protocol, self.node_protocol, self.cluster_protocol, "http">>)
            /\ request.uri[3] =
                    FirstOf(<<d.host, self.node_host, self.cluster_host, "localhost">>)
            /\ request.uri[5] =
                    FirstOf(<<d.port, self.node_port, self.cluster_port, "8091">>)
            /\ self.kind = "Cluster" =>
                    /\ request.uri[1] =
                            FirstOf(<<d.protocol, Get(o, "cluster_protocol"), "http">>)
                    /\ request.uri[3] =
                            FirstOf(<<d.host, Get(o, "cluster_host"), "localhost">>)
                    /\ request.uri[5] =
                            FirstOf(<<d.port, Get(o, "cluster_port"), "8091">>)

C6_Witness ==
    /\ Sent
    /\ handles[call.self].node_host = "b"
    /\ handles[call.self].cluster_host = "a"
    /\ call.args.host = Undef
    /\ call.args.port = "9002"
    /\ request.uri[3] = "b"
    /\ request.uri[5] = "9002"

-----------------------------------------------------------------------------
(* Properties of the handles *)

Coordinates(h) ==
    <<h.cluster_host, h.cluster_port, h.cluster_protocol, h.username, h.password>>

\* the options object a derivation was given
Given(c) ==
    IF IsObject(c.args.host) THEN c.args.host[2]
    ELSE IF c.op = "cluster" THEN c.args.options
    ELSE IF c.args.options = UndefV THEN <<>> ELSE c.args.options[2]

\* C7: a derived handle has its parent's coordinates and credentials unless
\* the derivation overrides them; a cluster derived by RestApi.cluster from a
\* host string or from an options object has the root's user name and password.
C7_Inherits ==
    call.op \in {"cluster", "node", "bucket"} =>
        LET parent == handles[call.self]
            child == handles[call.ret]
        IN  /\ call.op = "cluster" =>
                \A k \in {"username", "password"} :
                    ~Has(Given(call), k) => child[k] = parent[k]
            /\ call.op = "node" =>
                \A k \in {"cluster_host", "cluster_port", "cluster_protocol",
                           "username", "password"} :
                    ~Has(Given(call), k) => child[k] = parent[k]
            /\ call.op = "bucket" => Coordinates(child) = Coordinates(parent)

\* C8 as stated: the coordinates of a handle never change.
C8_Immutable ==
    [][\A h \in DOMAIN handles : Coordinates(handles'[h]) = Coordinates(handles[h])]_vars

\* C8 as amended: host, port and protocol of a handle never change; its user
\* name and password change only in a call of credentials on it, which
\* stores the values it is given (the handle's own where none is given),
\* whether its request resolves or rejects.
C8_OnlyCredentials ==
    [][\A h \in DOMAIN handles :
        /\ handles'[h].cluster_host = handles[h].cluster_host
        /\ handles'[h].cluster_port = handles[h].cluster_port
        /\ handles'[h].cluster_protocol = handles[h].cluster_protocol
        /\ handles'[h].node_host = handles[h].node_host
        /\ handles'[h].node_port = handles[h].node_port
        /\ handles'[h].node_protocol = handles[h].node_protocol
        /\ IF call'.op = "credentials" /\ call'.self = h
           THEN /\ handles'[h].username =
                        Default(Get(call'.args, "username"), handles[h].username)
                /\ handles'[h].password =
                        Default(Get(call'.args, "password"), handles[h].password)
           ELSE /\ handles'[h].username = handles[h].username
                /\ handles'[h].password = handles[h].password]_vars

C8_Witness ==
    /\ call.op = "credentials"
    /\ outcome[1] = "rejected"
    /\ Get(call.args, "password") = "q"
    /\ handles[call.self].password = "q"

\* the coordinates the handle of derivation c is to have, with hs the handles
EffectiveParameters(c, hs) ==
    IF c.op = "cluster"
    THEN ClusterConstructor(RestApiClusterOptions(hs[c.self], c.args.host, c.args.options))
    ELSE NodeConstructor(ClusterNodeOptions(hs[c.self], c.args.host, c.args.options))

C10_WriteOnce ==
    [][\A n \in DOMAIN handles :
        handles[n].cluster # 0 =>
            /\ handles'[n].cluster = handles[n].cluster
            /\ call'.op = "set cluster" /\ call'.self = n /\ call'.args.strict =>
                    call'.thrown = "TypeError"]_vars

C10_Witness ==
    /\ call.op = "set cluster"
    /\ call.thrown = "TypeError"
    /\ handles[call.self].cluster # 0
    /\ handles[call.self].cluster # call.args.value

-----------------------------------------------------------------------------
(* Properties of the operations *)

Settled == task.result # NoOutcome
Resolved == task.result[1] = "resolved"
Failing == {i \in DOMAIN log : log[i].reply[1] = "fail"}

\* the sub-operation a request belongs to, counted in the order of initialize
Rank(stage) ==
    CASE stage = "memory" -> 1
      [] stage \in NodeStages -> 2
      [] stage = "credentials" -> 3
      [] stage = "clusterName" -> 4
      [] stage = "addBuckets" -> 5
      [] stage \in {"addNodes", "details", "rebalance"} -> 6
      [] OTHER -> 0

\* C11: an operation one of whose requests has been rejected is rejected
\* with exactly the normalized errors of that request, and has sent no
\* request after it (the requests sent together with it apart).
C11_Propagates ==
    \A i \in Failing :
        Failing = {i} =>
            /\ task.result = <<"rejected", Normalize(log[i].reply[2])>>
            /\ \A j \in DOMAIN log : j > i => log[j].stage = log[i].stage

Sends(op, method) == task.op = op /\ log # <<>> => log[1].request.method = method

\* C12 as stated: post, put and delete each set their method and attach the
\* header Content-Type: application/x-www-form-urlencoded; get sets GET.
C12_MethodAndHeader ==
    /\ Sends("Base.get", "GET")
    /\ Sends("Base.post", "POST")
    /\ Sends("Base.put", "PUT")
    /\ Sends("Base.delete", "DELETE")
    /\ task.op \in {"Base.post", "Base.put", "Base.delete"} /\ log # <<>> =>
            log[1].request.headers = FormHeaders

\* C12 as amended: get, post, put and delete each set their method; post
\* attaches the header Content-Type: application/x-www-form-urlencoded, while
\* put, delete and get hand no headers to send.
C12_MethodAndPostHeader ==
    /\ Sends("Base.get", "GET")
    /\ Sends("Base.post", "POST")
    /\ Sends("Base.put", "PUT")
    /\ Sends("Base.delete", "DELETE")
    /\ task.op = "Base.post" /\ log # <<>> => log[1].request.headers = FormHeaders
    /\ task.op \in {"Base.get", "Base.put", "Base.delete"} /\ log # <<>> =>
            log[1].request.headers = UndefV

C12_Witness ==
    /\ task.op = "Base.put"
    /\ Len(log) = 1
    /\ log[1].request.method = "PUT"
    /\ log[1].request.headers = UndefV
    /\ log[1].request.form = UndefV

\* C13: the parameters given to get, under `data` or under `query`, are the
\* query string of the request it sends.
C13_QueryString ==
    task.op = "Base.get" /\ log # <<>> =>
        LET o == task.args.options
        IN  /\ o.data # UndefV => log[1].request.qs = o.data
            /\ o.data = UndefV /\ o.query # UndefV => log[1].request.qs = o.query

\* the form fields normalizeParams returned, or those a bucket posted
Params ==
    IF task.op = "Bucket.normalizeParams" THEN task.result[2][2]
    ELSE log[1].request.form[2]

Normalized ==
    \/ task.op = "Bucket.normalizeParams" /\ Settled
    \/ task.op \in {"Bucket.create", "Bucket.validate"} /\ log # <<>>

\* C14: the options {} normalize, for the bucket bucket1, to name=bucket1,
\* ramQuotaMB=100, replicaNumber=1, threadsNumber=8, bucketType=membase,
\* evictionPolicy=valueOnly, conflictResolutionType=seqno, flushEnabled=0.
C14_Defaults ==
    Normalized /\ task.args = <<>> /\ handles[task.self].name = "bucket1" =>
        /\ GetO(Params, "name") = Str("bucket1")
        /\ GetO(Params, "ramQuotaMB") = Num(100)
        /\ GetO(Params, "replicaNumber") = Num(1)
        /\ GetO(Params, "threadsNumber") = Num(8)
        /\ GetO(Params, "bucketType") = Str("membase")
        /\ GetO(Params, "evictionPolicy") = Str("valueOnly")
        /\ GetO(Params, "conflictResolutionType") = Str("seqno")
        /\ GetO(Params, "flushEnabled") = Num(0)

\* C15: whatever else the options hold, the form fields normalized from
\* options whose bucket_type is "ephemeral" hold neither
\* autoCompactionDefined nor replicaIndex.
C15_Ephemeral ==
    Normalized /\ GetO(task.args, "bucket_type") = Str("ephemeral") =>
        /\ ~Has(Params, "autoCompactionDefined")
        /\ ~Has(Params, "replicaIndex")

C15_Witness ==
    /\ task.op = "Bucket.normalizeParams"
    /\ Settled
    /\ GetO(task.args, "bucket_type") = Str("ephemeral")
    /\ GetO(task.args, "index_replicas") = Num(1)
    /\ GetO(task.args, "database_fragmentation_size_threshold") = Num(2)
    /\ GetO(Params, "bucketType") = Str("ephemeral")
    /\ Has(Params, "databaseFragmentationThreshold[size]")
    /\ ~Has(Params, "replicaIndex")
    /\ ~Has(Params, "autoCompactionDefined")

Handle1 == <<"handle", task.self>>

\* C16 as stated: an operation that writes resolves with its handle, one
\* that reads with the decoded response, one that creates with a fetched
\* detail record of what it created.
C16_ByKind ==
    Resolved =>
        /\ task.op \in {"Cluster.credentials", "Cluster.ejectNode", "Cluster.initialize",
                        "ServerGroup.addMembers"} => task.result[2] = Handle1
        /\ task.op \in {"Cluster.details", "ServerGroup.groups"} =>
                task.result[2] = LastData(task)
        /\ task.op \in {"Bucket.create", "ServerGroup.create"} =>
                task.result[2][1] = "detail"

\* C16 as amended: the operations that await their requests and then return
\* (Cluster.initialize, ServerGroup.addMembers, Bucket.create) resolve with
\* their handle; those that return the promise of their one request
\* (Cluster.credentials, Cluster.ejectNode, and the reads Cluster.details and
\* ServerGroup.groups) resolve with its decoded response; Bucket.validate
\* resolves with true; ServerGroup.create resolves with the record, fetched
\* after its POST, of the group of that name with its uuid and the revision,
\* and with an empty object when the fetch does not list such a group.
C16_ByOperation ==
    Resolved =>
        /\ task.op \in {"Cluster.initialize", "ServerGroup.addMembers", "Bucket.create"} =>
                task.result[2] = Handle1
        /\ task.op \in {"Cluster.credentials", "Cluster.ejectNode", "Cluster.details",
                        "ServerGroup.groups"} =>
                /\ Len(log) = 1
                /\ task.result[2] = log[1].reply[2]
        /\ task.op = "Bucket.validate" => task.result[2] = Bool(TRUE)
        /\ task.op = "ServerGroup.create" =>
                LET name == Default(task.args, handles[task.self].name)
                    fetched == log[2].reply[2][2]
                    listed == {i \in DOMAIN fetched.groups : fetched.groups[i].name = name}
                IN  /\ log[1].request.method = "POST"
                    /\ log[2].request.method = "GET"
                    /\ listed = {} => task.result[2] = Obj(<<>>)
                    /\ listed # {} =>
                        /\ task.result[2][1] = "detail"
                        /\ task.result[2][2].name = name
                        /\ \E i \in listed :
                                task.result[2][2].uuid = <<fetched.groups[i].uri[Len(fetched.groups[i].uri)]>>
                        /\ task.result[2][2].rev = <<fetched.uri[Len(fetched.uri)]>>

C16_Witness ==
    /\ task.op = "ServerGroup.create"
    /\ Resolved
    /\ task.args = "group-b"
    /\ task.result[2][1] = "detail"
    /\ task.result[2][2].uuid = <<"a1b2">>
    /\ task.result[2][2].rev = <<"8">>

\* C17: a request whose path starts with /pools/<name>/ names the pool of
\* the handle that sends it.
C17_Pool ==
    \A i \in DOMAIN log :
        LET e == log[i].d.endpoint
        IN  Len(e) >= 5 /\ SubSeq(e, 1, 3) = <<"/", "pools", "/">> =>
                e[4] = log[i].by.pool

\* whether the call of initialize gave an input of the sub-operation
Supplied(rank, a) ==
    CASE rank = 1 -> a.kv_memory # Undef \/ a.index_memory # Undef \/ a.fts_memory # Undef
      [] rank = 2 -> \/ a.data_path # Undef \/ a.hostname # Undef
                     \/ a.index_path # Undef \/ a.services # Undef
      [] rank = 3 -> a.username # Undef \/ a.password # Undef
      [] rank = 4 -> a.cluster_name # Undef
      [] rank = 5 -> a.buckets # <<>>
      [] rank = 6 -> a.nodes # <<>>

\* C18: initialize sends the requests of memory quota, node configuration,
\* credentials, cluster name, bucket creation and node addition in that
\* order, those of one sub-operation only after those of the one before have
\* resolved; it sends none for a sub-operation whose inputs the call did not
\* give, and, while nothing is rejected, it gets to every one whose inputs
\* the call gave.
C18_InOrder ==
    task.op = "Cluster.initialize" =>
        /\ \A i, j \in DOMAIN log :
                i < j => /\ Rank(log[i].stage) <= Rank(log[j].stage)
                         /\ Rank(log[i].stage) < Rank(log[j].stage) => log[i].reply[1] = "ok"
        /\ \A i \in DOMAIN log : Supplied(Rank(log[i].stage), task.args)
        /\ Settled /\ (\A i \in DOMAIN log : log[i].reply[1] = "ok") =>
                \A rank \in 1..6 :
                    Supplied(rank, task.args) => \E i \in DOMAIN log : Rank(log[i].stage) = rank

AddMembers == task.op = "ServerGroup.addMembers"

\* the group addMembers is to add to
Target == Default(task.args.name, handles[task.self].name)

\* how often the node called otpNode is listed in the groups
Occurrences(groups, otpNode) ==
    Cardinality({ik \in {<<i, k>> : i \in DOMAIN groups, k \in 1..3} :
                    /\ ik[2] \in DOMAIN groups[ik[1]].nodes
                    /\ groups[ik[1]].nodes[ik[2]].otpNode = otpNode})

\* C19: once the groups are fetched, addMembers sends one PUT with all the
\* groups, in which every host asked for (its port suffix stripped) is listed
\* once, as ns_1@host, in the group called name, and every other node is
\* listed in the group it was fetched in.
C19_Membership ==
    AddMembers /\ log # <<>> /\ log[1].reply[1] = "ok" =>
        /\ Len(log) = 2
        /\ log[2].request.method = "PUT"
        /\ LET fetched == log[1].reply[2][2].groups
               put == log[2].request.body[2].groups
               hosts == Hosts(task.args.nodes)
               asked == {StripPort(hosts[k]) : k \in DOMAIN hosts}
           IN  /\ Len(put) = Len(fetched)
               /\ \A h \in asked :
                    /\ Occurrences(put, <<"ns_1@">> \o h) = 1
                    /\ \E i \in DOMAIN put :
                            /\ put[i].name = Target
                            /\ InSeq([otpNode |-> <<"ns_1@">> \o h], put[i].nodes)
               /\ \A i \in DOMAIN fetched : \A k \in DOMAIN fetched[i].nodes :
                    StripPort(fetched[i].nodes[k].hostname) \notin asked =>
                        /\ put[i].name = fetched[i].name
                        /\ InSeq([otpNode |-> fetched[i].nodes[k].otpNode], put[i].nodes)

FetchesGroups(e) == e.request.method = "GET" /\ e.d.endpoint = ServerGroupsPath(e.by)

\* the revision token a reply to the fetch holds
Token(reply) == <<reply[2][2].uri[Len(reply[2][2].uri)]>>

Lists(reply, name) ==
    \E i \in DOMAIN reply[2][2].groups : reply[2][2].groups[i].name = name

\* C20 as stated: a call of addMembers that has settled has sent one fetch
\* and then one PUT, whose revision is the one the fetch returned.
C20_FetchThenPut ==
    AddMembers /\ Settled =>
        /\ Len(log) = 2
        /\ FetchesGroups(log[1])
        /\ log[2].request.method = "PUT"
        /\ log[1].reply[1] = "ok"
        /\ log[2].request.qs = Json([rev |-> Token(log[1].reply)])

\* C20 as amended: a call of addMembers sends one fetch, first, and at most
\* one PUT; it sends the PUT when, and only when, the fetch has resolved and
\* lists the group called name, and the revision of the PUT is the one that
\* fetch returned.
C20_FetchThenPutOnce ==
    AddMembers =>
        /\ Len(log) \in {1, 2}
        /\ FetchesGroups(log[1])
        /\ Len(log) = 2 <=> log[1].reply[1] = "ok" /\ Lists(log[1].reply, Target)
        /\ Len(log) = 2 =>
                /\ log[2].request.method = "PUT"
                /\ log[2].d.endpoint = ServerGroupsPath(log[2].by)
                /\ log[2].request.qs = Json([rev |-> Token(log[1].reply)])

C20_Witness ==
    /\ AddMembers
    /\ Resolved
    /\ Len(log) = 2
    /\ Token(log[1].reply) = <<"8">>
    /\ log[2].request.qs = Json([rev |-> <<"8">>])
    /\ log[2].reply[1] = "ok"

-----------------------------------------------------------------------------
(* Properties of the operations of a cluster on its nodes and buckets *)

FansOut == task.op \in {"Cluster.addBuckets", "Cluster.addNodes"}

\* the requests of the elements, in the log
PerElement == {i \in DOMAIN log : log[i].stage \in {"addBuckets", "addNodes"}}

\* the elements given to the call
Elements == IF task.op = "Cluster.addBuckets" THEN task.args ELSE task.args.nodes

\* the elements that have other coordinates than the cluster
Others ==
    {i \in DOMAIN Elements :
        \/ task.op = "Cluster.addBuckets"
        \/ Elements[i].cluster_protocol # handles[task.self].cluster_protocol
        \/ Elements[i].cluster_host # handles[task.self].cluster_host
        \/ Elements[i].cluster_port # handles[task.self].cluster_port}

\* C22 as stated: from its invocation on, and so before any reply is awaited,
\* addBuckets and addNodes have sent one request for every element, the
\* first requests of the log; a rejected one rejects the call, and the
\* requests of the other elements stay sent.
C22_FanOut ==
    FansOut =>
        /\ PerElement = 1..Len(Elements)
        /\ (\E i \in PerElement : log[i].reply[1] = "fail") => task.result[1] = "rejected"

\* C22 as amended: from its invocation on, addBuckets has sent one request
\* for every element and addNodes one for every element whose coordinates
\* are not those of the cluster; a rejected one rejects the call, and the
\* requests of the other elements stay sent.
C22_FanOutOthers ==
    FansOut =>
        /\ PerElement = 1..Cardinality(Others)
        /\ (\E i \in PerElement : log[i].reply[1] = "fail") => task.result[1] = "rejected"

C22_Witness ==
    /\ FansOut
    /\ task.result[1] = "rejected"
    /\ Cardinality(PerElement) = 2
    /\ \E i, j \in PerElement : log[i].reply[1] = "fail" /\ log[j].reply[1] = "ok"

\* C23: addNodes sends the requests of the rebalance (the fetch of the
\* details and the POST) only when rebalance is true and every request to
\* add a node has resolved.
C23_RebalanceLast ==
    task.op = "Cluster.addNodes" =>
        \A i \in DOMAIN log :
            log[i].stage \in {"details", "rebalance"} =>
                /\ task.args.rebalance # "false"
                /\ \A j \in PerElement : log[j].reply[1] = "ok"

C23_Witness ==
    /\ task.op = "Cluster.addNodes"
    /\ Cardinality(PerElement) = 2
    /\ \E i \in DOMAIN log :
            log[i].stage = "rebalance" /\ log[i].d.endpoint = <<"/", "controller", "/", "rebalance">>

\* the otpNodes of the details that the call does not eject, joined by commas
Remaining ==
    LET ejected == IF task.args.given /\ task.args.ejectedNodes # UndefV
                   THEN task.args.ejectedNodes[2] ELSE <<>>
        nodes == SelectSeq(log[1].reply[2][2].nodes, LAMBDA n : ~InSeq(n.otpNode, ejected))
    IN  Join([i \in DOMAIN nodes |-> nodes[i].otpNode], ",")

\* C24: a call of rebalance without knownNodes first fetches the details of
\* the cluster and then, the details fetched, posts to /controller/rebalance
\* the otpNodes of the nodes it does not eject, joined by commas.
C24_FetchesKnownNodes ==
    task.op = "Cluster.rebalance" /\ (~task.args.given \/ task.args.knownNodes = UndefV) =>
        /\ log # <<>>
        /\ log[1].request.method = "GET"
        /\ log[1].d.endpoint = PoolPath(log[1].by)
        /\ log[1].reply[1] = "ok" =>
                /\ Len(log) = 2
                /\ log[2].request.method = "POST"
                /\ log[2].d.endpoint = <<"/", "controller", "/", "rebalance">>
                /\ log[2].request.form = Obj(<< <<"knownNodes", Remaining>> >>)

LooksUp ==
    /\ task.op \in Lookups \cup {"ServerGroup.addMembers"}
    /\ log # <<>>
    /\ FetchesGroups(log[1])

\* C25: when the fetch that rename, remove, addNode or addMembers starts with
\* is rejected, the operation is rejected with the errors of that rejection
\* and sends no other request.
C25_LookupRejects ==
    LooksUp /\ log[1].reply[1] = "fail" =>
        /\ task.result = <<"rejected", Normalize(log[1].reply[2])>>
        /\ Len(log) = 1

C25_Witness ==
    /\ LooksUp
    /\ task.op = "ServerGroup.rename"
    /\ log[1].reply[1] = "fail"
    /\ task.result[1] = "rejected"

Thresholds ==
    {"database_fragmentation_percentage_threshold", "database_fragmentation_size_threshold",
     "view_fragmentation_percentage_threshold", "view_fragmentation_size_threshold"}

\* C26: the autoCompactionDefined of the normalized form fields is true when
\* the options hold one of the four thresholds, whatever its value, and false
\* when they hold none.
C26_Supplied ==
    Normalized /\ Has(Params, "autoCompactionDefined") =>
        GetO(Params, "autoCompactionDefined") = Bool(Keys(task.args) \cap Thresholds # {})

-----------------------------------------------------------------------------
(* Properties of the operations of a node *)

\* C27: every configuration request of RestApi.node(host, options) goes to
\* the host given, at the node_port and by the node_protocol of the options
\* (8091 and http when the options name none).
C27_GivenCoordinates ==
    \A i \in DOMAIN log :
        task.op = "RestApi.node" /\ task.args.node_host[1] = "str" =>
            log[i].request.uri =
                Uri(Default(Get(DerivedOptions(task.args), "node_protocol"), "http"),
                    task.args.node_host[2],
                    Default(Get(DerivedOptions(task.args), "node_port"), "8091"),
                    log[i].d.endpoint)

NodeLevel ==
    {"Node.paths", "Node.hostname", "Node.useServices", "Node.eject", "Node.failover",
     "Node.recover", "Node.join"}

\* the parameters an operation of the node `self` computes from its arguments
Parameters(op, self, a) ==
    CASE op = "Node.paths" ->
            << <<"path", Default(a.data_path, "/opt/couchbase/var/lib/couchbase/data")>>,
               <<"index_path", Default(a.index_path, "/opt/couchbase/var/lib/couchbase/data")>> >>
      [] op = "Node.hostname" -> << <<"hostname", Default(a.hostname, self.cluster_host)>> >>
      [] op = "Node.useServices" ->
            << <<"services", IF a.services \in {Undef, "data"} THEN "kv" ELSE a.services>> >>
      [] op \in {"Node.eject", "Node.failover"} ->
            << <<"otpNode", <<Default(a.node, "ns_1"), "@",
                              Default(a.hostname, self.node_host)>> >> >>
      [] op = "Node.recover" ->
            << <<"otpNode", <<Default(a.node, "ns_1"), "@",
                              Default(a.hostname, self.node_host)>> >>,
               <<"recoveryType", Default(a.recover_type, "full")>> >>
      [] op = "Node.join" ->
            << <<"clusterMemberHostIp",
                    Default(a.cluster_host, IF self.cluster = 0 THEN "localhost"
                                            ELSE handles[self.cluster].cluster_host)>>,
               <<"clusterMemberPort",
                    Default(a.cluster_port, IF self.cluster = 0 THEN "8091"
                                            ELSE handles[self.cluster].cluster_port)>>,
               <<"user", Default(a.username, IF self.cluster = 0 THEN "Administrator"
                                             ELSE handles[self.cluster].username)>>,
               <<"password", Default(a.password, IF self.cluster = 0 THEN "password"
                                                 ELSE handles[self.cluster].password)>> >>

\* the uri of the endpoint at the cluster-level coordinates of a handle
AtCluster(c, endpoint) == Uri(c.cluster_protocol, c.cluster_host, c.cluster_port, endpoint)

\* C28: the POST of every operation of a node carries the parameters the
\* operation computes as its form, and the POST of eject goes to the host,
\* port and protocol of the cluster the node belongs to.
C28_FormEncoded ==
    \A i \in DOMAIN log :
        task.op \in NodeLevel /\ log[i].stage = "post" =>
            /\ log[i].request.method = "POST"
            /\ log[i].request.form = Obj(Parameters(task.op, handles[1], task.args))
            /\ task.op = "Node.eject" =>
                    log[i].request.uri = AtCluster(handles[handles[1].cluster],
                                                   log[i].d.endpoint)

\* join() on a node that was never assigned a cluster
JoinsAlone ==
    /\ task.op = "Node.join"
    /\ handles[1].cluster = 0
    /\ task.args = [cluster_host |-> Undef, cluster_protocol |-> Undef,
                    cluster_port |-> Undef, password |-> Undef,
                    rebalance |-> Undef, username |-> Undef]

\* C30: join() on a node that was never assigned a cluster does not fail on
\* reading the cluster: it posts the defaults localhost, 8091, Administrator
\* and password to /node/controller/doJoinCluster.
C30_JoinDefaults ==
    JoinsAlone =>
        /\ task.result # <<"rejected", <<"thrown", "RangeError">>>>
        /\ log # <<>>
        /\ log[1].request.method = "POST"
        /\ log[1].d.endpoint = <<"/", "node", "/", "controller", "/", "doJoinCluster">>
        /\ log[1].request.form =
                Obj(<< <<"clusterMemberHostIp", "localhost">>,
                       <<"clusterMemberPort", "8091">>,
                       <<"user", "Administrator">>,
                       <<"password", "password">> >>)

-----------------------------------------------------------------------------
(* Properties of two calls on one handle *)

\* the first or the second call
Called2(w) == IF w = 1 THEN task ELSE rival

BothAddMembers ==
    task.op = "ServerGroup.addMembers" /\ rival.op = "ServerGroup.addMembers"

\* the requests of call w in the log that are fetches, and those that are PUTs
FetchesOf(w) == {i \in DOMAIN log : log[i].of = w /\ FetchesGroups(log[i])}
PutsOf(w) == {i \in DOMAIN log : log[i].of = w /\ log[i].request.method = "PUT"}

\* the hosts call w asks for
Asked(w) ==
    {StripPort(Hosts(Called2(w).args.nodes)[k]) : k \in DOMAIN Hosts(Called2(w).args.nodes)}

\* the group call w is to add to
TargetOf(w) == Default(Called2(w).args.name, handles[1].name)

\* whether the PUT p leaves the k-th node of the g-th group fetched in f
\* where f has it
Leaves(p, f, g, k) ==
    /\ InSeq([otpNode |-> log[f].reply[2][2].groups[g].nodes[k].otpNode],
             log[p].request.body[2].groups[g].nodes)
    /\ Occurrences(log[p].request.body[2].groups,
                   log[f].reply[2][2].groups[g].nodes[k].otpNode) = 1

\* C21: two calls of addMembers on one handle do not wait for each other
\* and do not retry: the second sends its fetch when it is invoked, however
\* far the first has got, and each call sends one fetch and at most one PUT,
\* whose revision is the one its own fetch returned. So when both fetches
\* return the same topology both PUTs carry the same revision, and the PUT of
\* either call leaves every node that only the other call asked for in the
\* group it was fetched in: accepted last, it undoes the other call's move.
C21_LostUpdate ==
    BothAddMembers =>
        \A w \in {1, 2} :
            /\ Cardinality(FetchesOf(w)) = 1
            /\ Cardinality(PutsOf(w)) <= 1
            /\ \A f \in FetchesOf(w) : \A p \in PutsOf(w) :
                    /\ f < p
                    /\ log[f].reply[1] = "ok"
                    /\ log[p].request.qs = Json([rev |-> Token(log[f].reply)])
                    /\ \A e \in FetchesOf(3 - w) :
                         log[e].reply = log[f].reply =>
                            /\ \A q \in PutsOf(3 - w) :
                                    log[q].request.qs = log[p].request.qs
                            /\ \A g \in DOMAIN log[f].reply[2][2].groups :
                               \A k \in DOMAIN log[f].reply[2][2].groups[g].nodes :
                                    LET host == StripPort(log[f].reply[2][2].groups[g]
                                                            .nodes[k].hostname)
                                    IN  host \in Asked(3 - w) \ Asked(w) =>
                                            Leaves(p, f, g, k)

\* both calls fetch before either puts, both fetches return the same
\* topology, both PUTs carry its revision and are accepted; the first call
\* moved h1 to group-b, and the PUT of the second, sent last, has h1 in
\* group-a again
C21_Witness ==
    /\ BothAddMembers
    /\ Len(log) = 4
    /\ FetchesOf(1) = {1} /\ FetchesOf(2) = {2}
    /\ PutsOf(1) = {3} /\ PutsOf(2) = {4}
    /\ log[1].reply = log[2].reply
    /\ log[3].request.qs = log[4].request.qs
    /\ log[3].reply[1] = "ok" /\ log[4].reply[1] = "ok"
    /\ Asked(1) = {<<"h1">>} /\ TargetOf(1) = "group-b"
    /\ Asked(2) = {<<"h3">>} /\ TargetOf(2) = "group-a"
    /\ InSeq([otpNode |-> <<"ns_1@", "h1">>], log[3].request.body[2].groups[2].nodes)
    /\ InSeq([otpNode |-> <<"ns_1@", "h1">>], log[4].request.body[2].groups[1].nodes)
    /\ task.result[1] = "resolved" /\ rival.result[1] = "resolved"

\* a second initialize, made after the first has resolved, that has settings
\* of the node and has got to the step that configures it
Repeats ==
    /\ rival.op = "Cluster.initialize"
    /\ rival.since[1] = "resolved"
    /\ rival.stage >= 2
    /\ Truthy(rival.args.services) \/ Truthy(rival.args.hostname)
        \/ Truthy(rival.args.data_path) \/ Truthy(rival.args.index_path)

\* C29: a second initialize on a cluster whose first initialize has resolved
\* is not rejected on assigning the cluster of the node, and sends the
\* requests that configure the node.
C29_Repeatable ==
    Repeats =>
        /\ rival.result # <<"rejected", <<"thrown", "TypeError">>>>
        /\ \E i \in DOMAIN log : log[i].of = 2 /\ log[i].stage \in NodeStages

=========================================================================
